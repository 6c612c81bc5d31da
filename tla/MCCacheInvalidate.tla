-------------------------- MODULE MCCacheInvalidate --------------------------
\* One cache of the core, instantiated for model checking.
EXTENDS CacheInvalidate
=============================================================================

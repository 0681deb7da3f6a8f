----------------------------- MODULE MCPublicApi -----------------------------
(* Instances of PublicApi.                                                  *)
EXTENDS PublicApi

CONSTANTS t1, t2
MCThreads == {t1, t2}
=============================================================================

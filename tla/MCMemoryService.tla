--------------------------- MODULE MCMemoryService ---------------------------
(***************************************************************************)
(* Requests for model-checking MemoryService: an asynchronous observation,  *)
(* a key that one of three other kinds of observation takes, and writes of *)
(* every effect under keys that clients use again, once with another body. *)
(***************************************************************************)
EXTENDS MemoryService

CONSTANTS k1, k2

Observe(key, mode, user) == [key |-> key, mode |-> mode, user |-> user]

Change(key, effect, body) == [key |-> key, effect |-> effect, body |-> body]

TwoJobs == {Observe(k1, "async", TRUE), Observe(k2, "sync", TRUE),
            Observe(k2, "none", TRUE), Observe(k2, "async", FALSE)}

FieldWrites == {Change(k1, "field", "delta"), Change(k1, "field", "set"),
                Change(k2, "create", "event")}

Revisions == {Change(k1, "revise", "event")}
=============================================================================

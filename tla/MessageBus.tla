------------------------------ MODULE MessageBus ------------------------------
(***************************************************************************)
(* What the two halves of MessageBus (coda-agent src/message/mod.rs)       *)
(* share: the idempotency keys of publications and the flag close sets.    *)
(* The main inbox (MainInbox) and the user ring (UserRing) are separate    *)
(* fields of Inner that no operation but close touches together.           *)
(***************************************************************************)
CONSTANTS
    Keys,           \* the idempotency keys callers use
    NoKey,          \* a publication without an idempotency key
    Bodies          \* what is published

ASSUME KeyAssumption == NoKey \notin Keys

VARIABLE closed     \* Inner::closed

\* A field no operation has written yet.
Nothing == [outcome |-> "none"]
=============================================================================

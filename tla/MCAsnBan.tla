------------------------------ MODULE MCAsnBan ------------------------------
(***************************************************************************)
(* A small instance of AsnBan for what must happen in the end: the systems  *)
(* in Banned get one ban for an address, others only ever see events.       *)
(***************************************************************************)
EXTENDS AsnBan

CONSTANT Banned

MCDecision == [ip : IP, scenario : Banned, serial : {1}]

=============================================================================

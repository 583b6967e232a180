---------------------------- MODULE MCLedgerSync ----------------------------
(* Model-checking instances of LedgerSync: which thread runs where, and who  *)
(* writes which message.                                                     *)
EXTENDS LedgerSync, TLC

CONSTANTS A, B, request, poll, other, hello, reply, more, audit

\* On A a request and a poll interleave; on B one thread serves.
HostOf == [w \in Workers |-> IF w = other THEN B ELSE A]
WriterOf == [x \in Messages \cup Snapshots |-> IF x = reply THEN B ELSE A]
=============================================================================

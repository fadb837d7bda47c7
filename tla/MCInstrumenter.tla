----------------------------- MODULE MCInstrumenter -----------------------------
(***************************************************************************)
(* Pages of four words; frames at three places in a page, so that the page *)
(* of the frame pointer holds none, one or most of its words; the testcase *)
(* calls from 21, 22 or 24.  Rewrites of up to two instructions: results   *)
(* in the right and in another register, stores to the frame, to the       *)
(* linkage and the placeholder above it, in its page and in the next, to   *)
(* the testcase's words and to the heap, and a fault.                      *)
(***************************************************************************)
EXTENDS Instrumenter

SomeInstructions ==
    {Mov("RAX", "RDI"), Mov("RAX", "RSI"), Mov("RAX", "RCX"), Mov("RCX", "RDI"),
     Mov("RAX", "R11"), Trap,
     Store(13, "RDI"), Store(16, "RSI"), Store(19, "RDI"), Store(24, "RDI"), Store(26, "RSI")}
SomeRewrites == BoundedSeq(SomeInstructions, 2)
SomeTargets ==
    {<<Mov("RAX", "RDI")>>, <<Store(24, "RDI"), Mov("RAX", "RSI")>>, <<Mov("RAX", "RDI"), Store(26, "RSI")>>}
===============================================================================

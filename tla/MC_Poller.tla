------------------------------ MODULE MC_Poller ------------------------------
(***************************************************************************)
(* Instances of the poller for TLC.  A tick is half a second, so the       *)
(* 1-second Sleep is 2 ticks.                                              *)
(***************************************************************************)
EXTENDS Poller

\* Fake clock of the tests: a 30 second timeout, calls take no time.
FakeTimeout  == 60
FakeInterval == 2
FakeDelay    == 0
FakeMaxCalls == CeilDiv(FakeTimeout, FakeInterval) + 1

\* Real clock: a 5 second timeout; a call or an oversleep takes up to 1 s.
RealTimeout  == 10
RealInterval == 2
RealDelay    == 2
RealMaxCalls == CeilDiv(RealTimeout, RealInterval) + 1
=============================================================================

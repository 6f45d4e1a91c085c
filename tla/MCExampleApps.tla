--------------------------- MODULE MCExampleApps ---------------------------
(* All the example applications; three instants, so the slow node has two. *)
EXTENDS ExampleApps

MCApps ==
  {FsmLight, FsmAuto, FsmBlink, PnLight, PnAuto, PnBlink, Mixed,
   FsmMixCoop, FsmMixCyclic, FsmMixThreads, PnMixCoop, PnMixCyclic, PnMixThreads,
   FsmMixCoopTrace, FsmMixCyclicTrace, FsmMixThreadsTrace,
   PnMixCoopTrace, PnMixCyclicTrace, PnMixThreadsTrace,
   EspLight, EspAuto, EspBlink, EspMix}
=============================================================================

----------------------- MODULE MCPresentationBootstrap -----------------------
(* Two callers and one runtime from the very start; three devices by          *)
(* themselves; two runtimes of one device; one runtime, and which of two      *)
(* devices it gets.                                                           *)
EXTENDS PresentationBootstrap

CONSTANTS c1, c2, d1, d2, d3, r1, r2

MCCallers == {c1, c2}
MCDevices == {d1, d2, d3}
MCRuntimes == {r1, r2}
MCScenarios ==
    {[callers |-> MCCallers, devices |-> {d1}, runtimes |-> {r1}],
     [callers |-> {}, devices |-> MCDevices, runtimes |-> {}],
     [callers |-> {}, devices |-> {d1}, runtimes |-> MCRuntimes],
     [callers |-> {}, devices |-> {d1, d2}, runtimes |-> {r1}]}
=============================================================================

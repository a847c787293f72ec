------------------------ MODULE MCCommandStreamModule ------------------------
(* One lane with every way its segment can be too short, a second lane of    *)
(* either graph, and two tables, one of them with a size that needs padding. *)
EXTENDS CommandStreamModule

MCWriters == {"first", "second"}
MCRecordings ==
    [first |-> {[byteSize |-> size, laneIndex |-> 0, graphHash |-> "graph"] :
                    size \in {24, 48, 64}},
     second |-> {[byteSize |-> 32, laneIndex |-> 1, graphHash |-> hash] :
                    hash \in {"graph", "other"}}]
MCCommands ==
    {[op |-> "Draw", value |-> 1], [op |-> "BindComputePipeline", value |-> 2],
     [op |-> "EndRendering", value |-> 0]}
MCTableTypes == {"BufferTable", "PipelineTable"}
MCTableByteSize == [BufferTable |-> 32, PipelineTable |-> 20]
MCSectionIndices ==
    [LaneStream |-> -1 .. 1, BufferTable |-> {0}, PipelineTable |-> {1}]
\* An entry that would do.
MCStrayEntry ==
    [type |-> "PipelineTable", reservedFlags |-> 0, sectionIndex |-> 7,
     byteOffset |-> 104, byteSize |-> 0]
MCTargetSlack == {-8, 0, 8}
=============================================================================

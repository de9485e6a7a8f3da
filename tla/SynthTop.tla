------------------------------ MODULE SynthTop ------------------------------
(***************************************************************************)
(* synthesis/cpu_pipeline_synth_top.v: the pipelined core with four output *)
(* ports, and a recorder that samples them at every clock edge with reset  *)
(* low.  The core is that of CpuPipeline.  The recorder is not in the      *)
(* code: it is whoever watches the ports of the synthesised netlist.  Its  *)
(* account of where the clock cycles go is the cost model of               *)
(* docs/Hazard_Unit.md.                                                    *)
(***************************************************************************)
EXTENDS CpuPipeline, Sequences, FiniteSets

VARIABLES
  pcs,         (* dbg_pc at the edges so far, newest first, History of them *)
  owed,        (* edges, less instructions completed, stalls and twice the
                  redirects                                                *)
  idle         (* edges since an instruction completed, or since reset,
                  counted up to History                                    *)

recorder == <<pcs, owed, idle>>
topVars == <<vars, recorder>>

\* An instruction needs at most this many edges from its fetch to MEM/WB.
History == 5

-----------------------------------------------------------------------------
(* The ports. *)

dbg_pc          == pc
dbg_wb_data     == wb_write_back_data
dbg_wb_rd       == mem_wb.rd
dbg_wb_regwrite == mem_wb.RegWrite

-----------------------------------------------------------------------------

TopInit == Init /\ pcs = <<>> /\ owed = 0 /\ idle = 0

\* One sample: EX/MEM's instruction completes at this edge.
Sample ==
  /\ pcs' = <<dbg_pc>> \o SubSeq(pcs, 1, IF Len(pcs) < History THEN Len(pcs) ELSE History - 1)
  /\ owed' = owed + 1 - (IF live.ex_mem THEN 1 ELSE 0)
                      - (IF hazard_stall THEN 1 ELSE 0)
                      - (IF pipeline_flush THEN 2 ELSE 0)
  /\ idle' = IF live.ex_mem THEN 0 ELSE IF idle < History THEN idle + 1 ELSE idle

TopEdge == ClockEdge /\ Sample

TopReset ==
  /\ AssertReset
  /\ pcs' = <<>> /\ owed' = 0 /\ idle' = 0

TopRelease == ReleaseReset /\ UNCHANGED recorder

TopEdgeInReset == ClockEdgeInReset /\ UNCHANGED recorder

TopNext == TopEdge \/ TopReset \/ TopRelease \/ TopEdgeInReset

TopSpec == TopInit /\ [][TopNext]_topVars

\* A free-running clock.
TopFairSpec == TopSpec /\ WF_topVars(TopEdge)

-----------------------------------------------------------------------------

InFlight == Cardinality({stage \in {"if_id", "id_ex", "ex_mem"} : live[stage]})

\* Once the pipeline has filled, an instruction completes at every third edge
\* at the latest; after reset the first completes at the fourth.
NeverIdleLong == idle <= IF Len(pcs) < History THEN 3 ELSE 2

\* Every clock edge is accounted for: it brought an instruction that has
\* completed or is in flight, it was the one cycle of a load-use stall, or one
\* of the two that docs/Hazard_Unit.md:66 and 106 charge for a taken branch or
\* a jump.  Nothing is charged twice, nothing else costs a cycle, and no costs
\* add up to a longer gap than that.
CycleCost == owed = InFlight /\ NeverIdleLong

\* The ports alone tell whose write they show: dbg_pc had the address of the
\* writing instruction four edges ago, or five if it waited in ID for a load,
\* which shows as an address that dbg_pc repeated.  That instruction writes
\* dbg_wb_rd, and what a jump writes is the address after its own.
WriterShown ==
  dbg_wb_regwrite =>
    LET n   == IF pcs[3] = pcs[4] THEN 5 ELSE 4
        i   == fetch(imem, pcs[n])
        ctl == control_unit(i.opcode)
    IN /\ ctl.RegWrite
       /\ i.rd = dbg_wb_rd
       /\ ctl.Jump => dbg_wb_data = ToWord(pcs[n] + 4)

=============================================================================

---------------------------- MODULE AfeRecovery ----------------------------
(***************************************************************************)
(* AfeProtect with the memory it takes to say when a path is closed again  *)
(* after its protections have released.  A path is asked for at an edge    *)
(* only (pp_afe_chip.c:155), and what refuses the request need not have an *)
(* edge of its own in the table: the chip's protections have no operation, *)
(* and the host writes some statuses itself.  Two history variables        *)
(* remember that; no step depends on them.                                 *)
(***************************************************************************)
EXTENDS AfeProtect

VARIABLES
  stood,   \* per path: at the last Evaluate a status stood that no edge follows
  refused  \* per path: it was so when the path was last asked to close

hvars == <<vars, stood, refused>>

HTypeOK ==
  /\ stood \in [dsg : BOOLEAN, chg : BOOLEAN]
  /\ refused \in [dsg : BOOLEAN, chg : BOOLEAN]

\* q sees p in the same pulse, without delay, as one of its members.
Covers(q, p) ==
  /\ q \in Detected /\ p \in MembersOf[q] /\ Delay[q] = 0
  /\ p \in Chip \/ p \in Single

\* The release of p is followed by an edge of the table that asks for the path:
\* p is operated itself, or seen by one that is, and not by the host's will.
Followed(p, opr) == p \in opr \/ \E q \in opr : Covers(q, p)

Stood(group, opr) ==
  \E p \in group : status[p] /\ (p \in EnvWritable \/ ~Followed(p, opr \ EnvWritable))

\* What this step asks of a path: the operation of an edge, or the automatic
\* control of the first cycle.
Asked(opr) ==
  IF pc = "operate" /\ k # k' /\ status[Order[k]] # old[Order[k]] THEN Request(Order[k], opr)
  ELSE IF pc = "first" /\ pc' = "export" /\ first_cycle THEN On ELSE Keep

RefusedAfter(asked, stands, before) ==
  IF asked = On THEN stands ELSE asked = Keep /\ before

HInit ==
  /\ Init
  /\ stood = [dsg |-> FALSE, chg |-> FALSE]
  /\ refused = [dsg |-> FALSE, chg |-> FALSE]

Remember ==
  /\ stood' = IF pc = "evaluate" /\ pc' = "operate"
              THEN [dsg |-> Stood(DsgGroup, DsgOpr), chg |-> Stood(ChgGroup, ChgOpr)]
              ELSE stood
  /\ refused' = [dsg |-> RefusedAfter(Asked(DsgOpr), stood.dsg, refused.dsg),
                 chg |-> RefusedAfter(Asked(ChgOpr), stood.chg, refused.chg)]

HNext == Next /\ Remember

HSpec == HInit /\ [][HNext]_hvars

-----------------------------------------------------------------------------
(* Properties. *)

\* Nothing but protections may open a MOS here ...
OnlyProtections == SmartValues = {TRUE} /\ LockValues = {FALSE}

\* Every status that bears on a path is released, and the table knows it.
Clear(group, opr) ==
  (\A p \in group \cup opr : ~status[p]) /\ (\A p \in opr : ~old[p])

\* ... and then, once the protections of a path are all released, the pulse
\* ends with the path closed, in whatever order they overlapped, unless it was
\* last asked for while a status stood whose release nothing follows.  That
\* the request is then lost for good is what the code does; that no other
\* release is lost is what has to hold (pp_afe_soft_set4data,
\* pp_afe_soft_opr4data).
RecoversWhenClear ==
  pc = "wait" /\ ~first_cycle /\ OnlyProtections =>
    /\ Clear(DsgGroup, DsgOpr) => ctl.dsg \/ refused.dsg
    /\ Clear(ChgGroup, ChgOpr) => ctl.chg \/ refused.chg
=============================================================================

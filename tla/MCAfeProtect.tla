--------------------------- MODULE MCAfeProtect ----------------------------
(* Instances of AfeProtect built from the program's own table (AfeStatus). *)
EXTENDS AfeProtect, AfeStatus, TLC

CONSTANT Enabled  \* the statuses of this instance

MCOrder == SelectSeq(OprOrder, LAMBDA p : p \in Enabled)
MCDsgOpr == OprDsg \cap Enabled
MCChgOpr == OprChg \cap Enabled
MCDsgGroup == (chdsg \cup dsg) \cap Enabled
MCChgGroup == (chdsg \cup chg) \cap Enabled
MCChip == {"ov1", "scd", "occ1", "uv1"} \cap Enabled
MCDetected == Enabled \ MCChip
MCEnvWritable == EnvStatus \cap Enabled
MCMembersOf == [p \in MCDetected |-> Members(p) \cap Enabled]

\* Two cycles for vdif so that a trip can be interrupted, one for the other
\* thresholds, none for the statuses the program gives none.
MCDelay == [p \in MCDetected |->
              IF p \in {"otc", "otd", "utc", "utd", "pdsg_scd"} THEN 0
              ELSE IF p = "vdif" THEN 2 ELSE 1]

AnySample == [pdsg : BOOLEAN, ldon : BOOLEAN, chgrin : BOOLEAN]
OneSample == {s \in AnySample : ~(s.pdsg /\ s.ldon) /\ ~(s.pdsg /\ s.chgrin) /\ ~(s.ldon /\ s.chgrin)}
NoSample == [pdsg : {FALSE}, ldon : {FALSE}, chgrin : {FALSE}]

Flags == {FALSE, TRUE}
JustTrue == {TRUE}
JustFalse == {FALSE}
=============================================================================

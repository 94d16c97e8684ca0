----------------------------- MODULE AfeStatus -----------------------------
(***************************************************************************)
(* The protection statuses of the battery (pp_data_afe_status.h) and the   *)
(* table of the MOS operations they cause (pp_afe_soft_o.c).  A status is  *)
(* named by its field of _afe without the suffix _status.                  *)
(***************************************************************************)
EXTENDS Sequences

\* The groups delimited by the __status_*_begin__ / __status_*_end__ fields.
chdsg == {"fuse", "afe_fail", "vdif", "oht", "mot"}

chg == {"chgm_fail", "ov1", "ov2", "occ1", "occ2", "occ", "eoc", "cell0_utc",
        "cell1_utc", "utc", "cell0_otc", "cell1_otc", "otc"}

dsg == {"dsgm_fail", "uv1", "uv2", "pdsg_scd", "scd", "ocd1", "ocd2", "ocd",
        "cell0_utd", "cell1_utd", "utd", "cell0_otd", "cell1_otd", "otd"}

\* The _AFE_MOS_OPR4STATUS calls of pp_afe_soft_opr4data, in program order ...
OprOrder == << "pdsg_scd", "vdif", "oht", "utd", "utc", "otc", "otd", "ov2",
               "uv2", "mot" >>

\* ... those that operate the discharge MOS, and the charge MOS.
OprDsg == {"pdsg_scd", "vdif", "oht", "utd", "otd", "uv2", "mot"}

OprChg == {"vdif", "oht", "utc", "otc", "ov2", "uv2", "mot"}

\* A status that is the OR of the two cell sensors' statuses.
Members(p) ==
  CASE p = "utd" -> {"cell0_utd", "cell1_utd"}
    [] p = "utc" -> {"cell0_utc", "cell1_utc"}
    [] p = "otc" -> {"cell0_otc", "cell1_otc"}
    [] p = "otd" -> {"cell0_otd", "cell1_otd"}
    [] OTHER     -> {}

\* Detectors whose release condition is the constant 0.
Latched == {"afe_fail", "chgm_fail", "dsgm_fail"}

\* Statuses of the model env_afe_sh: kept in flash and written by the host.
EnvStatus == {"dsgm_fail", "chgm_fail", "afe_fail", "fuse", "pdsg_scd", "scd"}
=============================================================================

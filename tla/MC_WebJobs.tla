----------------------------- MODULE MC_WebJobs -----------------------------
(* The instance of WebJobs that MC_WebJobs.cfg checks: two rows fetched one at *)
(* a time, and a pick-up for every fault and restart the bounds allow.        *)
EXTENDS WebJobs

ASSUME EnoughPickUps == PickUps >= Rows + MaxFaults + Rows * MaxCrashes
=============================================================================

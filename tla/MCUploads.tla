----------------------------- MODULE MCUploads -----------------------------
(* An instance of Uploads for TLC: the toggles the owner may set, and a      *)
(* full-resolution file no request may carry.                                *)
EXTENDS Uploads

Small == [mode |-> "qcamera", cabin |-> FALSE]
Full == [mode |-> "full", cabin |-> FALSE]
UploadConfigs == {Small, Full}
BigFiles == {<<1, "fcamera">>}

\* Something fails, with every track short enough or with the whole drive's too
\* long; the owner moves the toggles and nothing fails.
UploadScenarios ==
  [configs : {{Full}}, points : {1, 2}, faults : {1}]
    \cup [configs : {UploadConfigs}, points : {2}, faults : {0}]
=============================================================================

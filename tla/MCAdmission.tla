----------------------------- MODULE MCAdmission -----------------------------
(* Instances of Admission: both kinds of calls, owned or not.              *)
EXTENDS Admission

Both == {"run", "stream"}
=============================================================================

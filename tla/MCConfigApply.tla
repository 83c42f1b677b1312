---------------------------- MODULE MCConfigApply -----------------------------
(* An instance of ConfigApply.  Level 9 is unknown and broker 9 refused; the  *)
(* environment may set one limit, or both, or the log level and the broker,   *)
(* and name the energy entities.                                              *)
EXTENDS ConfigApply, TLC

MCFile == [min |-> 6, max |-> 10, cooldown |-> 5, safe |-> 7, level |-> 1, broker |-> 1,
           listen |-> 1, energy |-> Absent]
MCFiles == {MCFile}

NoneSet == [f \in Fields |-> NoEnv]
MCEnvironments == { NoneSet, [NoneSet EXCEPT !["min"] = 8],
                    [NoneSet EXCEPT !["min"] = 8, !["max"] = 9],
                    [NoneSet EXCEPT !["level"] = 2, !["broker"] = 2, !["energy"] = 1] }

MCForms == { ("min" :> 8), ("min" :> 6 @@ "max" :> 7 @@ "safe" :> 8),
             ("max" :> 10 @@ "level" :> 9), ("level" :> 2),
             ("broker" :> 2), ("broker" :> 9), ("min" :> 9 @@ "broker" :> 1),
             ("listen" :> 2 @@ "max" :> 9) }
=============================================================================

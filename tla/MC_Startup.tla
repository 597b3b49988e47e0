----------------------------- MODULE MC_Startup -----------------------------
(* Configurations with every section filled in, or with one field missing. *)
EXTENDS Startup

Complete(b) == [backend |-> b, set |-> Fields, validity |-> TRUE, attrs |-> TRUE]

MCConfigs ==
    {Complete(b) : b \in Backends \cup {"", "unknown"}}
    \cup {[Complete(b) EXCEPT !.set = Fields \ {f}] : b \in Backends, f \in Fields}
    \cup {[Complete("local") EXCEPT !.validity = FALSE],
          [Complete("local") EXCEPT !.attrs = FALSE]}
=============================================================================

------------------------------- MODULE MCServe -------------------------------
(***************************************************************************)
(* Serve with one change, two signals and one server that ends by itself;  *)
(* every flag is given alone, and --skip-build with each of the others.    *)
(***************************************************************************)
EXTENDS Serve

MCFlags ==
    LET given(w, b, p) == [watch |-> w, skipBuild |-> b, pushpin |-> p] IN
    {given(TRUE, FALSE, FALSE), given(FALSE, FALSE, TRUE), given(FALSE, TRUE, FALSE),
     given(TRUE, TRUE, FALSE)}

MCMaxChanges == 1
MCMaxSignals == 2
MCMaxExits   == 1

=============================================================================

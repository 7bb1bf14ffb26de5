--------------------------- MODULE MCConfiguration ---------------------------
(***************************************************************************)
(* Configuration with two processes, two profiles, three commands and one  *)
(* process killed: without a file, with a legacy user next to a profile,   *)
(* and with two profiles of which the default comes from a login.          *)
(* fastly.toml or --profile may name any profile there is.                 *)
(***************************************************************************)
EXTENDS Configuration, TLC

MCFirstFiles ==
    LET static(d) == [token |-> "static", default |-> d]
        sso(d)    == [token |-> "valid", default |-> d]
        with(u, l) == [n \in Names |-> IF n = User THEN u ELSE l]
        a(format, user, ps) == [format |-> format, user |-> user, profiles |-> ps]
    IN  {a("absent", FALSE, Nothing),
         a("outdated", TRUE, with(static(TRUE), Absent)),
         a("outdated", FALSE, with(sso(TRUE), static(FALSE)))}

MCOverrides   == Names
MCMaxCommands == 3
MCMaxKills    == 1
Symmetry      == Permutations(Procs)

=============================================================================

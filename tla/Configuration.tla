---------------------------- MODULE Configuration ----------------------------
(***************************************************************************)
(* The user's configuration file and the profiles kept in it               *)
(* (src/pkg/config, src/pkg/profile, src/pkg/commands/profile), the        *)
(* refresh of expired tokens at the start of a command (src/pkg/app/run.go) *)
(* and the login by browser (src/pkg/commands/sso, src/pkg/auth).          *)
(*                                                                         *)
(* Every command is a process: it reads the whole file into memory, works  *)
(* on that copy, perhaps asks the user, and writes the whole copy back, by *)
(* truncating the file and then writing it, without a lock.  Processes may *)
(* overlap, and any of them may be killed.                                 *)
(*                                                                         *)
(* Of a profile the model keeps whether it is the default and what its     *)
(* token is worth: a long-lived one ("static"), one from a login that the  *)
(* authority accepts ("valid"), or one it has replaced since ("spent").    *)
(* A profile may also be named by fastly.toml, the file of the project, or *)
(* by the flag --profile.  A login is then for that profile, whichever     *)
(* profile the command was given; the flag is otherwise kept only for the  *)
(* commands that need a token.                                             *)
(***************************************************************************)
EXTENDS Integers, FiniteSets

CONSTANTS Procs,        \* processes
          Names,        \* names of profiles
          User, Legacy, \* the names a legacy user is migrated to
          NoName,       \* no name is given to the command
          Overrides,    \* the profiles that fastly.toml or the flag may name
          FirstFiles,   \* the files there may be at first
          MaxCommands,  \* bound: commands started
          MaxKills      \* bound: processes killed

ASSUME ConfigurationAssumption ==
    /\ {User, Legacy} \subseteq Names /\ User # Legacy /\ NoName \notin Names
    /\ Overrides \subseteq Names
    /\ MaxCommands \in Nat /\ MaxKills \in Nat

Tokens  == {"none", "static", "valid", "spent"}    \* "none": no such profile
Profile == [token : Tokens, default : BOOLEAN]
Absent  == [token |-> "none", default |-> FALSE]

\* A command: "use" stands for every one that needs a token, "metadata" for
\* those that write a setting.  Whether a login is asked for (--enable-sso of
\* "use", --sso of "create" and "update") is left open.
Setting  == [kind |-> "metadata", name |-> NoName]
Commands == [kind : {"use", "update", "sso"}, name : Names \cup {NoName}]
            \cup [kind : {"create", "switch", "delete"}, name : Names]
            \cup {Setting}

VARIABLES
    file,      \* the file: its format, its profiles, and a legacy user
    pc,        \* where a process stands
    cmd,       \* its command
    memory,    \* its copy of the profiles
    target,    \* the profile its command is about
    loginFor,  \* the profile that gets the tokens of its login
    then,      \* where it goes on after the file is written
    port,      \* the process that listens on port 8080
    \* history, on which no step depends but for the bounds:
    saved,     \* the profiles of the last copy written, or of the first file
    behind,    \* the processes whose copy is not what was saved last
    holding,   \* the processes with a token whose predecessor is spent
    mishaps,   \* what has happened that the code does not protect from
    started, kills

history == <<saved, behind, holding, mishaps, started, kills>>
vars == <<file, pc, cmd, memory, target, loginFor, then, port, history>>

Exist(n, ps)  == ps[n].token # "none"
Defaults(ps)  == {n \in Names : ps[n].default}
Nothing       == [n \in Names |-> Absent]
IsSSO(p)      == p.token \in {"valid", "spent"}

\* Mutant: the others stay defaults.
SetDefaultOnly(n, ps) == [ps EXCEPT ![n].default = TRUE]

\* Every other profile stops being a default.
SetDefault(n, ps) == [m \in Names |-> [ps[m] EXCEPT !.default = (m = n)]]

\* What a command may find at first: no file, one of this version, or one of
\* another, perhaps with a legacy user.  If there are profiles, one is the
\* default.
OneOf(ps) == \A n \in Names :
    /\ ps[n].token # "spent"
    /\ ps[n].default => Defaults(ps) = {n} /\ Exist(n, ps)
File == [format : {"absent", "current", "outdated", "empty", "garbled"},
         user : BOOLEAN, profiles : [Names -> Profile]]

ASSUME FilesAssumption ==
    /\ FirstFiles \subseteq File
    /\ \A f \in FirstFiles :
        /\ f.format \in {"absent", "current", "outdated"}
        /\ OneOf(f.profiles) /\ (f.profiles # Nothing => Defaults(f.profiles) # {})
        /\ f.format = "absent" => f.profiles = Nothing
        /\ f.user => f.format = "outdated"

Init ==
    /\ file \in FirstFiles
    /\ saved = file.profiles
    /\ mishaps = IF file.user /\ file.profiles # Nothing THEN {"hybrid"} ELSE {}
    /\ pc = [p \in Procs |-> "idle"]
    /\ cmd = [p \in Procs |-> Setting]
    /\ memory = [p \in Procs |-> Nothing]
    /\ target = [p \in Procs |-> NoName]
    /\ loginFor = [p \in Procs |-> NoName]
    /\ then = [p \in Procs |-> "idle"]
    /\ port = NoName
    /\ behind = {} /\ holding = {} /\ started = 0 /\ kills = 0

Start(p, c) ==
    /\ pc[p] = "idle"
    /\ started < MaxCommands
    /\ started' = started + 1
    /\ pc' = [pc EXCEPT ![p] = "load"]
    /\ cmd' = [cmd EXCEPT ![p] = c]
    /\ UNCHANGED <<file, memory, target, loginFor, then, port,
                   saved, behind, holding, mishaps, kills>>

\* The process is gone, and with it its server and what it has not saved.
Gone(p) ==
    /\ cmd' = [cmd EXCEPT ![p] = Setting]
    /\ memory' = [memory EXCEPT ![p] = Nothing]
    /\ target' = [target EXCEPT ![p] = NoName]
    /\ loginFor' = [loginFor EXCEPT ![p] = NoName]
    /\ then' = [then EXCEPT ![p] = "idle"]
    /\ port' = IF port = p THEN NoName ELSE port

End(p) ==
    /\ Gone(p)
    /\ pc' = [pc EXCEPT ![p] = "idle"]
    /\ behind' = behind \ {p}
    /\ holding' = holding \ {p}

EndWith(p, mishap) ==
    /\ End(p)
    /\ mishaps' = mishaps \cup mishap \cup (IF p \in holding THEN {"unsaved"} ELSE {})
    /\ UNCHANGED <<file, saved, started, kills>>

Stop(p) == EndWith(p, {})

-----------------------------------------------------------------------------
(* Reading and writing the file.                                           *)

\* The section of a legacy user becomes a default profile.
MigrateLegacy(ps, user) ==
    LET key == IF Exist(User, ps) THEN Legacy ELSE User IN
    IF user THEN [ps EXCEPT ![key] = [token |-> "static", default |-> TRUE]] ELSE ps

\* The file is missing, empty, or was written by another version.
NeedsUpdating == file.format # "current"

Save(p, ps, next) ==
    /\ memory' = [memory EXCEPT ![p] = ps]
    /\ pc' = [pc EXCEPT ![p] = "truncate"]
    /\ then' = [then EXCEPT ![p] = next]

\* Mutant: the embedded configuration replaces the file, profiles included.
ReadAfresh(p) ==
    /\ pc[p] = "load" /\ file.format # "garbled"
    /\ behind' = IF file.format = "empty" THEN behind \cup {p} ELSE behind
    /\ IF NeedsUpdating
         THEN Save(p, MigrateLegacy(Nothing, file.user), "act")
         ELSE /\ memory' = [memory EXCEPT ![p] = file.profiles]
              /\ pc' = [pc EXCEPT ![p] = "act"]
              /\ UNCHANGED then
    /\ UNCHANGED <<file, cmd, target, loginFor, port,
                   saved, holding, mishaps, started, kills>>

\* An empty file holds no profiles.
Read(p) ==
    /\ pc[p] = "load" /\ file.format # "garbled"
    /\ behind' = IF file.format = "empty" THEN behind \cup {p} ELSE behind
    /\ IF NeedsUpdating
         THEN Save(p, MigrateLegacy(file.profiles, file.user), "act")
         ELSE /\ memory' = [memory EXCEPT ![p] = file.profiles]
              /\ pc' = [pc EXCEPT ![p] = "act"]
              /\ UNCHANGED then
    /\ UNCHANGED <<file, cmd, target, loginFor, port,
                   saved, holding, mishaps, started, kills>>

\* The user is asked whether to replace a file that cannot be read: no ends
\* the command, and so does yes, with the panic of NeedsUpdating, unless the
\* file is TOML but no configuration.  Then the embedded one, which has no
\* profiles, is written, and the command goes on with nothing it can use.
ReadGarbled(p) ==
    /\ pc[p] = "load" /\ file.format = "garbled"
    /\ \/ Stop(p)
       \/ /\ behind' = behind \cup {p}
          /\ Save(p, Nothing, "act")
          /\ UNCHANGED <<file, cmd, target, loginFor, port,
                         saved, holding, mishaps, started, kills>>

\* O_TRUNC.
Truncate(p) ==
    /\ pc[p] = "truncate"
    /\ pc' = [pc EXCEPT ![p] = "encode"]
    /\ file' = [format |-> "empty", user |-> FALSE, profiles |-> Nothing]
    /\ UNCHANGED <<cmd, memory, target, loginFor, then, port, history>>

\* The copy is written from the start of the file: what another process wrote
\* since, if longer, shows behind it, and the file does not parse.  Close
\* follows; what comes next is up to the command.
Encode(p) ==
    /\ pc[p] = "encode"
    /\ \/ file' = [format |-> "current", user |-> FALSE, profiles |-> memory[p]]
       \/ file.format # "empty"
          /\ file' = [format |-> "garbled", user |-> FALSE, profiles |-> Nothing]
    /\ saved' = memory[p]
    /\ mishaps' = mishaps \cup (IF p \in behind THEN {"stale"} ELSE {})
    /\ behind' = {q \in Procs \ {p} : pc[q] \notin {"idle", "load"}}
    /\ holding' = holding \ {p}
    /\ pc' = [pc EXCEPT ![p] = then[p]]
    /\ IF then[p] = "idle" THEN Gone(p)
                           ELSE UNCHANGED <<cmd, memory, target, loginFor, then, port>>
    /\ UNCHANGED <<started, kills>>

\* "profile create --sso" writes what the login has written already.
WriteAgain(p) ==
    /\ pc[p] = "again"
    /\ Save(p, memory[p], "idle")
    /\ UNCHANGED <<file, cmd, target, loginFor, port, history>>

-----------------------------------------------------------------------------
(* The commands.  About(p, n, next): p's command goes on with profile n.   *)

About(p, n, next) ==
    /\ target' = [target EXCEPT ![p] = n]
    /\ pc' = [pc EXCEPT ![p] = next]
    /\ UNCHANGED <<file, cmd, memory, loginFor, then, port, history>>

\* It goes on with a login, for the profile n.
LogIn(p, about, n) ==
    /\ target' = [target EXCEPT ![p] = about]
    /\ loginFor' = [loginFor EXCEPT ![p] = n]
    /\ pc' = [pc EXCEPT ![p] = "login"]
    /\ UNCHANGED <<file, cmd, memory, then, port, history>>

\* identifyProfileAndFlow: the profile of fastly.toml or of the flag comes
\* before the one that the command was given.  One that does not exist fails
\* the login when it has succeeded (Unauthorized).
LogInFor(p, n) ==
    \E o \in {n} \cup {m \in Overrides : Exist(m, memory[p])} : LogIn(p, n, o)

\* A write that ends the command.
SaveFor(p, n, ps) ==
    /\ target' = [target EXCEPT ![p] = n]
    /\ Save(p, ps, "idle")
    /\ UNCHANGED <<file, cmd, loginFor, port, history>>

\* The profile whose token a command uses: the one it names, or a default.
Chosen(p) ==
    IF cmd[p].name = NoName THEN Defaults(memory[p])
                            ELSE {n \in {cmd[p].name} : Exist(n, memory[p])}

\* A long-lived token is used as it is unless a login is asked for, as is one
\* that has not expired.  Without a token a login is only possible for some
\* profile that is then made the default; without any it fails.
ProcessToken(p) ==
    /\ pc[p] = "act" /\ cmd[p].kind = "use"
    /\ \/ Stop(p)
       \/ \E n \in Chosen(p) :
            \/ IsSSO(memory[p][n]) /\ About(p, n, "refresh")
            \/ LogIn(p, n, n)
       \/ /\ cmd[p].name = NoName /\ Defaults(memory[p]) = {}
          /\ \E n \in Names : Exist(n, memory[p]) /\ LogIn(p, n, n)

Metadata(p) ==
    /\ pc[p] = "act" /\ cmd[p].kind = "metadata"
    /\ Stop(p) \/ SaveFor(p, NoName, memory[p])

\* Nobody is asked when there is no default yet.
Create(p) ==
    LET n == cmd[p].name IN
    /\ pc[p] = "act" /\ cmd[p].kind = "create"
    /\ \/ Stop(p)
       \/ ~Exist(n, memory[p]) /\ LogInFor(p, n)
       \/ /\ ~Exist(n, memory[p])
          /\ \E makeDefault \in BOOLEAN :
                /\ Defaults(memory[p]) = {} => makeDefault
                /\ LET ps == [memory[p] EXCEPT
                                ![n] = [token |-> "static", default |-> makeDefault]]
                   IN  SaveFor(p, n, IF makeDefault THEN SetDefault(n, ps) ELSE ps)

Delete(p) ==
    LET n == cmd[p].name IN
    /\ pc[p] = "act" /\ cmd[p].kind = "delete"
    /\ IF Exist(n, memory[p])
         THEN /\ target' = [target EXCEPT ![p] = n]
              /\ Save(p, [memory[p] EXCEPT ![n] = Absent], "idle")
              /\ mishaps' = mishaps \cup (IF memory[p][n].default THEN {"deleted"} ELSE {})
              /\ UNCHANGED <<file, cmd, loginFor, port, saved, behind, holding,
                             started, kills>>
         ELSE Stop(p)

\* Mutant: the defaults are cleared and written for a name that is not there.
SwitchUnchecked(p) ==
    LET n == cmd[p].name IN
    /\ pc[p] = "act" /\ cmd[p].kind = "switch"
    /\ IF IsSSO(memory[p][n]) THEN LogInFor(p, n)
       ELSE SaveFor(p, n, [m \in Names |-> [memory[p][m] EXCEPT
                               !.default = (m = n /\ Exist(n, memory[p]))]])

Switch(p) ==
    LET n == cmd[p].name IN
    /\ pc[p] = "act" /\ cmd[p].kind = "switch"
    /\ IF ~Exist(n, memory[p]) THEN Stop(p)
       ELSE IF IsSSO(memory[p][n]) THEN LogInFor(p, n)
       ELSE SaveFor(p, n, SetDefault(n, memory[p]))

\* A long-lived token is validated, and stored with the default taken away:
\* the user is asked for that next.
Update(p) ==
    /\ pc[p] = "act" /\ cmd[p].kind = "update"
    /\ \/ Stop(p)
       \/ \E n \in Chosen(p) :
            \/ LogInFor(p, n)
            \/ /\ ~IsSSO(memory[p][n])
               /\ target' = [target EXCEPT ![p] = n]
               /\ Save(p, [memory[p] EXCEPT ![n].default = FALSE], "prompt")
               /\ UNCHANGED <<file, cmd, loginFor, port, history>>

MakeDefault(p) ==
    /\ pc[p] = "prompt"
    /\ Save(p, SetDefault(target[p], memory[p]), "idle")
    /\ UNCHANGED <<file, cmd, target, loginFor, port, history>>

\* The user declines, or the answer cannot be read.
LeaveDefault(p) ==
    /\ pc[p] = "prompt"
    /\ EndWith(p, IF Defaults(memory[p]) = {} THEN {"declined"} ELSE {})

\* "sso" without a name is about a default, or else about any profile.
SSO(p) ==
    LET some == IF cmd[p].name = NoName /\ Defaults(memory[p]) = {}
                  THEN {n \in Names : Exist(n, memory[p])} ELSE Chosen(p)
    IN  /\ pc[p] = "act" /\ cmd[p].kind = "sso"
        /\ IF some = {} THEN Stop(p) ELSE \E n \in some : LogInFor(p, n)

-----------------------------------------------------------------------------
(* Refreshing a token.                                                     *)

\* The authority has replaced the token of n, and p has the new one.
Spend(ps, n) == [ps EXCEPT ![n].token = IF @ = "valid" THEN "spent" ELSE @]

\* The token is replaced, or it stays; a spent one asks for a login.
Refresh(p) ==
    LET n == target[p] IN
    /\ pc[p] = "refresh"
    /\ \/ Stop(p)
       \/ memory[p][n].token = "spent" /\ LogIn(p, n, n)
       \/ memory[p][n].token = "valid" /\ About(p, n, "validate")
       \/ /\ memory[p][n].token = "valid"
          /\ file' = [file EXCEPT !.profiles = Spend(@, n)]
          /\ saved' = Spend(saved, n)
          /\ memory' = [q \in Procs |-> IF q = p THEN memory[q] ELSE Spend(memory[q], n)]
          /\ pc' = [pc EXCEPT ![p] = "validate"]
          /\ holding' = holding \cup {p}
          /\ UNCHANGED <<cmd, target, loginFor, then, port, behind, mishaps, started, kills>>

\* Mutant: the refresh token that came with the access token is not kept.
ValidateForgets(p) ==
    /\ pc[p] = "validate"
    /\ \/ /\ Save(p, IF p \in holding THEN Spend(memory[p], target[p]) ELSE memory[p], "idle")
          /\ UNCHANGED <<file, cmd, target, loginFor, port, history>>
       \/ Stop(p)

\* ValidateAndRetrieveAPIToken: an error loses what the authority has given.
Validate(p) ==
    /\ pc[p] = "validate"
    /\ \/ Save(p, memory[p], "idle") /\ UNCHANGED <<file, cmd, target, loginFor, port, history>>
       \/ Stop(p)

-----------------------------------------------------------------------------
(* Logging in.                                                             *)

\* The user declines, or the browser cannot be opened, or the port is seen to
\* be taken.
Decline(p) ==
    /\ pc[p] = "login"
    /\ Stop(p)

\* The goroutine that listens cannot when the port is taken, which the command
\* mostly fails to notice: it waits all the same.
Listen(p) ==
    /\ pc[p] = "login"
    /\ pc' = [pc EXCEPT ![p] = "waiting"]
    /\ port' = IF port = NoName THEN p ELSE port
    /\ UNCHANGED <<file, cmd, memory, target, loginFor, then, history>>

\* processProfiles.  A new profile is the default if there is none or the user
\* says so; any other is made the default, also by "profile update".  "profile
\* create" makes no new profile if fastly.toml names one.
LoggedIn(p, makeDefault) ==
    LET n   == loginFor[p]
        ps  == [memory[p] EXCEPT ![n].token = "valid"]
        new == cmd[p].kind = "create" /\ n = target[p]
    IN  IF new /\ ~makeDefault THEN ps ELSE SetDefault(n, ps)

\* The browser calls back with a code that is exchanged for tokens.
Authorized(p) ==
    /\ pc[p] = "waiting" /\ port = p
    /\ \E makeDefault \in BOOLEAN :
        /\ Defaults(memory[p]) = {} => makeDefault
        /\ Save(p, LoggedIn(p, makeDefault),
                CASE cmd[p].kind = "create" -> "again"
                  [] cmd[p].kind = "update" -> "prompt"
                  [] OTHER -> "idle")
    /\ UNCHANGED <<file, cmd, target, loginFor, port, history>>

\* No code, tokens that cannot be had for it, or a page opened by another
\* process: that one's code does not go with this one's verifier.
Unauthorized(p) ==
    /\ pc[p] = "waiting" /\ port = p
    /\ Stop(p)

-----------------------------------------------------------------------------

\* An update has taken the default away, and not asked for it yet.
Asking(p) == cmd[p].kind = "update" /\ target[p] # NoName

\* Killed by the user, with the terminal, or by a write that fails.
Kill(p) ==
    /\ pc[p] # "idle"
    /\ kills < MaxKills
    /\ kills' = kills + 1
    /\ End(p)
    /\ mishaps' = mishaps \cup (IF p \in holding THEN {"unsaved"} ELSE {})
                         \cup (IF Asking(p) THEN {"declined"} ELSE {})
    /\ UNCHANGED <<file, saved, started>>

Act(p) ==
    \/ ProcessToken(p) \/ Metadata(p) \/ Create(p) \/ Delete(p)
    \/ Switch(p) \/ Update(p) \/ SSO(p)

Next ==
    \E p \in Procs :
        \/ \E c \in Commands : Start(p, c)
        \/ Read(p) \/ ReadGarbled(p) \/ Truncate(p) \/ Encode(p)
        \/ WriteAgain(p)
        \/ Act(p) \/ MakeDefault(p) \/ LeaveDefault(p)
        \/ Refresh(p) \/ Validate(p)
        \/ Decline(p) \/ Listen(p) \/ Authorized(p) \/ Unauthorized(p)
        \/ Kill(p)

Spec == Init /\ [][Next]_vars

-----------------------------------------------------------------------------
(* Properties.                                                             *)

Profiled == file.format \in {"current", "outdated"}

\* However commands follow, overlap or are killed, no file ever names two
\* default profiles, unless it started as one that had profiles and a legacy
\* user as well, whom MigrateLegacy makes another default.
OneDefault == Cardinality(Defaults(file.profiles)) > 1 => "hybrid" \in mishaps

\* A file with profiles names a default, without which no command finds its
\* token, unless the user has given that up ("profile delete" of the default,
\* or no to the question of "profile update"), or an outdated copy was written.
DefaultKept ==
    /\ Profiled /\ file.profiles # Nothing /\ Defaults(file.profiles) = {}
    /\ \A p \in Procs : ~Asking(p)
    => mishaps \cap {"declined", "deleted", "stale"} # {}

\* A process whose copy is what was saved last, which an empty file is not,
\* changes no token but that of the profile its command is about and, after a
\* login, that of the profile which fastly.toml or the flag names: neither the
\* renewal of an old file nor a refresh or a login loses another profile.  (A
\* legacy user does replace a profile that is called "legacy".)
OthersKept ==
    [][\A p \in Procs \ behind :
          pc[p] = "encode" /\ pc'[p] # "encode" /\ saved' # saved /\ "hybrid" \notin mishaps =>
          \A n \in Names \ {target[p], loginFor[p]} :
              Exist(n, saved) => saved'[n].token = saved[n].token]_vars

\* The refresh token on file is the one the authority accepts, whatever
\* refreshes and logins went before, unless an outdated copy was written, or a
\* process was killed or failed between the refresh and the write.
TokensAccepted ==
    (\E n \in Names : file.profiles[n].token = "spent") =>
        holding # {} \/ mishaps \cap {"stale", "unsaved"} # {}

=============================================================================

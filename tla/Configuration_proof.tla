-------------------------- MODULE Configuration_proof --------------------------
(***************************************************************************)
(* Proofs about Configuration, for any number of processes, profiles,      *)
(* commands and kills, and for any files there may be at first.            *)
(*                                                                         *)
(* Every step of a process is one of eight: it starts, reads the file or   *)
(* replaces one that is no configuration (Reads), truncates it, writes it  *)
(* (Encode), goes on to another label with its copy as it is (Go), edits its*)
(* copy and turns to writing it (Edit), has a token replaced (Replace), or *)
(* leaves (Leave).  The first section says so (Steps), and each part of the*)
(* inductive invariant is then proved along those eight.                   *)
(***************************************************************************)
EXTENDS Configuration, FiniteSetTheorems, TLAPS

Profiles == [Names -> Profile]
Labels   == {"idle", "load", "act", "truncate", "encode", "again", "prompt",
             "refresh", "validate", "login", "waiting"}
Mishaps  == {"hybrid", "stale", "unsaved", "declined", "deleted"}

\* Types.
TypeOK ==
    /\ file \in File /\ saved \in Profiles
    /\ pc \in [Procs -> Labels]
    /\ then \in [Procs -> {"idle", "act", "prompt", "again"}]
    /\ memory \in [Procs -> Profiles]
    /\ target \in [Procs -> Names \cup {NoName}]
    /\ loginFor \in [Procs -> Names \cup {NoName}]
    /\ cmd \in [Procs -> Commands]
    /\ behind \subseteq Procs /\ holding \subseteq Procs
    /\ mishaps \subseteq Mishaps

Away(p)    == pc[p] \in {"idle", "load"}
Writing(p) == pc[p] \in {"truncate", "encode"}

\* p is at the label, or writes the file and goes there next.
Bound(p, label) == pc[p] = label \/ (Writing(p) /\ then[p] = label)

\* A profile that is a default is there, in the file and in every copy.
DefaultsExist(ps) == \A n \in Names : ps[n].default => Exist(n, ps)

\* What is known of a process by where it stands.
Place(p) ==
    /\ Away(p) => p \notin holding /\ p \notin behind /\ memory[p] = Nothing
    /\ Away(p) \/ Bound(p, "act") => target[p] = NoName
    /\ Away(p) \/ Bound(p, "act") \/ pc[p] = "refresh" => loginFor[p] = NoName
    /\ Bound(p, "again") => target[p] \in Names /\ cmd[p].kind = "create"
    /\ Bound(p, "prompt") => /\ cmd[p].kind = "update"
                             /\ target[p] \in Names /\ Exist(target[p], memory[p])
    /\ pc[p] \in {"refresh", "validate"} => target[p] \in Names /\ cmd[p].kind = "use"
    /\ pc[p] \in {"login", "waiting"} =>
          /\ target[p] \in Names /\ loginFor[p] \in Names
          /\ cmd[p].kind = "update" => Exist(target[p], memory[p])

Places == \A p \in Procs : Place(p)

WellFormed == DefaultsExist(file.profiles) /\ \A p \in Procs : DefaultsExist(memory[p])

\* An empty file has no profiles, and any other that parses what was saved.
FileSaved ==
    /\ file.format \notin {"empty", "garbled"} => file.profiles = saved
    /\ ~Profiled => file.profiles = Nothing

Shape == TypeOK /\ Places /\ WellFormed /\ FileSaved

-----------------------------------------------------------------------------
(* What the operators on profiles do.                                      *)

\* SetDefault leaves the tokens and makes n the one default.
LEMMA SetDefaultFacts ==
    ASSUME NEW n \in Names, NEW ps \in Profiles
    PROVE  /\ SetDefault(n, ps) \in Profiles
           /\ \A m \in Names : /\ SetDefault(n, ps)[m].token = ps[m].token
                               /\ SetDefault(n, ps)[m].default = (m = n)
BY DEF SetDefault, Profiles, Profile, Tokens

\* Spend leaves the defaults, and of the tokens all but a valid one of n.
LEMMA SpendFacts ==
    ASSUME NEW n \in Names, NEW ps \in Profiles
    PROVE  /\ Spend(ps, n) \in Profiles
           /\ \A m \in Names :
                 /\ Spend(ps, n)[m].default = ps[m].default
                 /\ m # n => Spend(ps, n)[m].token = ps[m].token
           /\ Spend(ps, n)[n].token = IF ps[n].token = "valid" THEN "spent" ELSE ps[n].token
BY DEF Spend, Profiles, Profile, Tokens

\* A profile that is made no default.
LEMMA UnsetFacts ==
    ASSUME NEW n \in Names, NEW ps \in Profiles
    PROVE  LET new == [ps EXCEPT ![n].default = FALSE] IN
           /\ new \in Profiles /\ new[n].token = ps[n].token /\ ~new[n].default
           /\ \A m \in Names \ {n} : new[m] = ps[m]
<1> DEFINE one == [ps[n] EXCEPT !.default = FALSE]
           new == [ps EXCEPT ![n] = one]
<1>1. ps[n] \in Profile  BY DEF Profiles
<1>2. one \in Profile /\ one.token = ps[n].token  BY <1>1 DEF Profile
<1>3. one.default = FALSE  BY <1>1 DEF Profile
<1> HIDE DEF one
<1>4. new \in Profiles /\ new[n] = one /\ \A m \in Names \ {n} : new[m] = ps[m]
  BY <1>2 DEF Profiles
<1>5. [ps EXCEPT ![n].default = FALSE] = new  BY Zenon DEF one
<1> HIDE DEF new
<1>6. new[n].token = ps[n].token /\ ~new[n].default  BY <1>2, <1>3, <1>4, Zenon
<1>7. QED  BY <1>4, <1>5, <1>6, Zenon

LEMMA NothingFacts ==
    /\ Nothing \in Profiles
    /\ \A n \in Names : Nothing[n].token = "none" /\ ~Nothing[n].default
BY DEF Nothing, Profiles, Profile, Tokens, Absent

\* Profiles of which none has a token and none is a default are Nothing.
LEMMA NothingElse ==
    ASSUME NEW ps \in Profiles,
           \A n \in Names : ps[n].token = "none" /\ ~ps[n].default
    PROVE  ps = Nothing
<1>1. ASSUME NEW n \in Names PROVE ps[n] = Absent
  BY <1>1 DEF Profiles, Profile, Tokens, Absent
<1>2. ps = [n \in Names |-> ps[n]]  BY DEF Profiles
<1>3. QED  BY <1>1, <1>2 DEF Nothing

\* A legacy user is migrated to a default profile, and no other is touched.
LEMMA MigrateFacts ==
    ASSUME NEW ps \in Profiles, NEW user \in BOOLEAN
    PROVE  /\ MigrateLegacy(ps, user) \in Profiles
           /\ ~user => MigrateLegacy(ps, user) = ps
           /\ user => \E key \in Names :
                 /\ MigrateLegacy(ps, user)[key].token = "static"
                 /\ MigrateLegacy(ps, user)[key].default
                 /\ \A m \in Names \ {key} : MigrateLegacy(ps, user)[m] = ps[m]
<1> DEFINE key == IF Exist(User, ps) THEN Legacy ELSE User
           new == [token |-> "static", default |-> TRUE]
<1>1. key \in Names /\ user \in BOOLEAN  BY ConfigurationAssumption
<1>2. new \in Profile /\ new.token = "static" /\ new.default  BY DEF Profile, Tokens
<1>3. [ps EXCEPT ![key] = new] \in Profiles  BY <1>1, <1>2 DEF Profiles
<1>4. user => MigrateLegacy(ps, user) = [ps EXCEPT ![key] = new]  BY DEF MigrateLegacy
<1>5. ~user => MigrateLegacy(ps, user) = ps  BY DEF MigrateLegacy
<1> HIDE DEF key, new
<1>6. [ps EXCEPT ![key] = new][key] = new /\ \A m \in Names \ {key} : [ps EXCEPT ![key] = new][m] = ps[m]
  BY <1>1 DEF Profiles
<1>7. user => \E k \in Names :
                 /\ MigrateLegacy(ps, user)[k].token = "static"
                 /\ MigrateLegacy(ps, user)[k].default
                 /\ \A m \in Names \ {k} : MigrateLegacy(ps, user)[m] = ps[m]
  BY <1>1, <1>2, <1>4, <1>6, Zenon
<1>8. MigrateLegacy(ps, user) \in Profiles  BY <1>3, <1>4, <1>5, Zenon
<1>9. QED  BY <1>5, <1>7, <1>8, Zenon

\* The names of commands.
LEMMA CommandFacts ==
    ASSUME NEW c \in Commands
    PROVE  /\ c.name \in Names \cup {NoName}
           /\ c.kind \in {"create", "switch", "delete"} => c.name \in Names
           /\ c.kind \in {"use", "update", "sso", "create", "switch", "delete", "metadata"}
BY DEF Commands, Setting

-----------------------------------------------------------------------------
(* The steps of a process.                                                 *)

AtMostOne(ps) == \A m, n \in Names : ps[m].default /\ ps[n].default => m = n

\* There are profiles, and none is the default.
Bare(ps) == ps # Nothing /\ Defaults(ps) = {}

\* A file that is no configuration is replaced.
Renew(p) ==
    /\ pc[p] = "load"
    /\ behind' = behind \cup {p}
    /\ Save(p, Nothing, "act")
    /\ UNCHANGED <<file, cmd, target, loginFor, saved, holding, mishaps>>

Reads(p) == Read(p) \/ Renew(p)

\* p goes on with its copy as it is, about profile n and, if it logs in, for o.
Goes(p, n, o, next) ==
    /\ pc[p] \in {"act", "refresh", "login"}
    /\ target[p] \in {NoName, n} /\ loginFor[p] \in {NoName, o}
    /\ next \in {"refresh", "validate"} => cmd[p].kind = "use" /\ o = NoName
    /\ next \in {"login", "waiting"} =>
          o \in Names /\ (cmd[p].kind = "update" => Exist(n, memory[p]))
    /\ pc' = [pc EXCEPT ![p] = next]
    /\ target' = [target EXCEPT ![p] = n]
    /\ loginFor' = [loginFor EXCEPT ![p] = o]
    /\ UNCHANGED <<file, cmd, memory, then, history>>

Go(p) ==
    \E n \in Names, o \in Names \cup {NoName},
       next \in {"refresh", "validate", "login", "waiting"} : Goes(p, n, o, next)

\* p changes its copy to ps, about profile n: no other than that and the one it
\* has logged in for loses its token, none gets a spent one, and the default
\* goes only if the user is asked for it next, or has deleted it.
Edited(p, ps, n, next) ==
    /\ next = "prompt" => cmd[p].kind = "update" /\ n \in Names /\ Exist(n, ps)
    /\ next = "again" => cmd[p].kind = "create" /\ n \in Names
    /\ next = "idle" /\ cmd[p].kind = "update" /\ n # NoName => Defaults(ps) # {}
    /\ DefaultsExist(ps)
    /\ AtMostOne(memory[p]) => AtMostOne(ps)
    /\ \A m \in Names : ps[m].token = "spent" => memory[p][m].token = "spent"
    /\ \A m \in Names \ {n, loginFor[p]} : ps[m].token = memory[p][m].token
    /\ Bare(ps) => Bare(memory[p]) \/ next = "prompt" \/ "deleted" \in mishaps'

Edit(p) ==
    \E ps \in Profiles, n \in Names \cup {NoName}, next \in {"idle", "prompt", "again"} :
        /\ pc[p] \in {"act", "again", "prompt", "validate", "waiting"}
        /\ pc[p] = "prompt" => next = "idle"
        /\ target[p] \in {NoName, n}
        /\ Save(p, ps, next)
        /\ target' = [target EXCEPT ![p] = n]
        /\ mishaps' \in {mishaps, mishaps \cup {"deleted"}}
        /\ UNCHANGED <<file, cmd, loginFor, saved, behind, holding>>
        /\ Edited(p, ps, n, next)

\* The authority replaces the token p asks it to renew.
Replace(p) ==
    LET n == target[p] IN
    /\ pc[p] = "refresh" /\ memory[p][n].token = "valid"
    /\ file' = [file EXCEPT !.profiles = Spend(@, n)]
    /\ saved' = Spend(saved, n)
    /\ memory' = [q \in Procs |-> IF q = p THEN memory[q] ELSE Spend(memory[q], n)]
    /\ pc' = [pc EXCEPT ![p] = "validate"]
    /\ holding' = holding \cup {p}
    /\ UNCHANGED <<cmd, target, loginFor, then, behind, mishaps>>

\* p leaves, by itself or killed: a token it has not saved is lost, and so is
\* a default it has taken away.
Leave(p) ==
    /\ pc[p] # "idle"
    /\ End(p)
    /\ \E more \in SUBSET {"unsaved", "declined"} :
          /\ mishaps' = mishaps \cup more
          /\ p \in holding => "unsaved" \in more
          /\ Asking(p) /\ (Writing(p) \/ (pc[p] = "prompt" /\ Defaults(memory[p]) = {}))
                => "declined" \in more
    /\ UNCHANGED <<file, saved>>

Step(p) ==
    \/ \E c \in Commands : Start(p, c)
    \/ Reads(p) \/ Truncate(p) \/ Encode(p)
    \/ Go(p) \/ Edit(p) \/ Replace(p) \/ Leave(p)

\* A command that stops where no default is in doubt leaves.
LEMMA Stops ==
    ASSUME NEW p \in Procs, Stop(p), pc[p] \in Labels \ {"idle", "truncate", "encode", "prompt"}
    PROVE  Step(p)
<1>1. \E more \in SUBSET {"unsaved", "declined"} :
          mishaps' = mishaps \cup more /\ (p \in holding => "unsaved" \in more)
  <2>1. CASE p \in holding
    <3>1. mishaps' = mishaps \cup {"unsaved"}  BY <2>1 DEF Stop, EndWith
    <3> QED  BY <3>1
  <2>2. CASE p \notin holding
    <3>1. mishaps' = mishaps \cup {}  BY <2>2 DEF Stop, EndWith
    <3> QED  BY <2>2, <3>1
  <2> QED  BY <2>1, <2>2
<1>2. ~Writing(p) /\ pc[p] \notin {"idle", "prompt"}  BY DEF Writing
<1>3. Leave(p)  BY <1>1, <1>2 DEF Leave, Stop, EndWith
<1>4. QED  BY <1>3 DEF Step

\* Going on with a profile that has a token.
LEMMA Abouts ==
    ASSUME Shape, NEW p \in Procs, NEW n \in Names, NEW next \in {"refresh", "validate"},
           About(p, n, next), pc[p] \in {"act", "refresh"}, target[p] \in {NoName, n},
           cmd[p].kind = "use"
    PROVE  Step(p)
<1>1. loginFor[p] = NoName  BY DEF Shape, Places, Place, Bound
<1>2. loginFor' = [loginFor EXCEPT ![p] = NoName]  BY <1>1 DEF About, Shape, TypeOK
<1>3. Goes(p, n, NoName, next)  BY <1>1, <1>2 DEF Goes, About, history
<1>4. QED  BY <1>3 DEF Step, Go

\* Logging in for a profile.
LEMMA LogsIn ==
    ASSUME Shape, NEW p \in Procs, NEW n \in Names, NEW o \in Names, LogIn(p, n, o),
           pc[p] \in {"act", "refresh"}, target[p] \in {NoName, n},
           cmd[p].kind = "update" => Exist(n, memory[p])
    PROVE  Step(p)
<1>1. loginFor[p] = NoName  BY DEF Shape, Places, Place, Bound
<1>2. Goes(p, n, o, "login")  BY <1>1 DEF Goes, LogIn, history
<1>3. QED  BY <1>2 DEF Step, Go

\* The profile it is about, or the one that fastly.toml or the flag names.
LEMMA LogsInFor ==
    ASSUME Shape, NEW p \in Procs, NEW n \in Names, LogInFor(p, n),
           pc[p] \in {"act", "refresh"}, target[p] \in {NoName, n},
           cmd[p].kind = "update" => Exist(n, memory[p])
    PROVE  Step(p)
<1>1. PICK o \in Names : LogIn(p, n, o)  BY ConfigurationAssumption DEF LogInFor
<1>2. QED  BY <1>1, LogsIn

\* A write that ends the command.
LEMMA Saves ==
    ASSUME NEW p \in Procs, NEW ps \in Profiles, NEW n \in Names \cup {NoName},
           SaveFor(p, n, ps), pc[p] = "act", target[p] = NoName,
           Edited(p, ps, n, "idle")
    PROVE  Step(p)
<1>1. Edit(p)  BY DEF Edit, SaveFor, history
<1>2. QED  BY <1>1 DEF Step

-----------------------------------------------------------------------------
(* Each action of the specification is such a step.                        *)

\* What the actions of a command look at.
LEMMA ProcessFacts ==
    ASSUME Shape, NEW p \in Procs
    PROVE  /\ memory[p] \in Profiles /\ DefaultsExist(memory[p]) /\ cmd[p] \in Commands
           /\ pc[p] = "act" => target[p] = NoName
           /\ pc[p] \in {"refresh", "validate", "login", "waiting"} => target[p] \in Names
           /\ pc[p] = "act" => loginFor[p] = NoName
           /\ pc[p] \in {"login", "waiting"} =>
                 loginFor[p] \in Names /\ (cmd[p].kind = "update" => Exist(target[p], memory[p]))
           /\ \A n \in Chosen(p) : n \in Names /\ Exist(n, memory[p])
<1>1. memory[p] \in Profiles /\ DefaultsExist(memory[p]) /\ cmd[p] \in Commands
  BY DEF Shape, TypeOK, WellFormed
<1>2. /\ pc[p] = "act" => target[p] = NoName
      /\ pc[p] \in {"refresh", "validate", "login", "waiting"} => target[p] \in Names
      /\ pc[p] = "act" => loginFor[p] = NoName
      /\ pc[p] \in {"login", "waiting"} =>
            loginFor[p] \in Names /\ (cmd[p].kind = "update" => Exist(target[p], memory[p]))
  BY DEF Shape, Places, Place, Bound
<1>3. cmd[p].name \in Names \cup {NoName}  BY <1>1, CommandFacts
<1>4. \A n \in Chosen(p) : n \in Names /\ Exist(n, memory[p])
  BY <1>1, <1>3 DEF Chosen, Defaults, DefaultsExist
<1>5. QED  BY <1>1, <1>2, <1>4

LEMMA ProcessTokenSteps == ASSUME Shape, NEW p \in Procs, ProcessToken(p) PROVE Step(p)
<1>1. pc[p] = "act" /\ cmd[p].kind = "use" /\ target[p] = NoName
  BY ProcessFacts DEF ProcessToken
<1>2. CASE Stop(p)  BY <1>1, <1>2, Stops DEF Labels
<1>3. ASSUME NEW n \in Names, About(p, n, "refresh") \/ LogIn(p, n, n) PROVE Step(p)
  BY <1>1, <1>3, Abouts, LogsIn
<1>4. QED  BY <1>2, <1>3, ProcessFacts DEF ProcessToken

LEMMA MetadataSteps == ASSUME Shape, NEW p \in Procs, Metadata(p) PROVE Step(p)
<1>1. pc[p] = "act" /\ cmd[p].kind = "metadata" /\ target[p] = NoName
  BY ProcessFacts DEF Metadata
<1>2. CASE Stop(p)  BY <1>1, <1>2, Stops DEF Labels
<1>3. CASE SaveFor(p, NoName, memory[p])
  <2>1. Edited(p, memory[p], NoName, "idle")  BY <1>1, ProcessFacts DEF Edited
  <2>2. QED  BY <1>1, <1>3, <2>1, Saves, ProcessFacts
<1>4. QED  BY <1>2, <1>3 DEF Metadata

\* A profile that becomes the only default leaves a default.
LEMMA SetDefaultEdits ==
    ASSUME Shape, NEW p \in Procs, NEW n \in Names, NEW o \in Names, NEW ps \in Profiles,
           Exist(o, ps),
           \A m \in Names : ps[m].token = "spent" => memory[p][m].token = "spent",
           \A m \in Names \ {n, loginFor[p]} : ps[m].token = memory[p][m].token
    PROVE  /\ Edited(p, SetDefault(o, ps), n, "idle") /\ SetDefault(o, ps) \in Profiles
           /\ cmd[p].kind = "update" /\ Exist(n, ps) => Edited(p, SetDefault(o, ps), n, "prompt")
           /\ cmd[p].kind = "create" => Edited(p, SetDefault(o, ps), n, "again")
<1> DEFINE new == SetDefault(o, ps)
<1>1. /\ new \in Profiles
      /\ \A m \in Names : new[m].token = ps[m].token /\ (new[m].default = (m = o))
  BY SetDefaultFacts
<1> HIDE DEF new
<1>2. o \in Defaults(new) /\ ~Bare(new)  BY <1>1 DEF Defaults, Bare
<1>3. DefaultsExist(new) /\ AtMostOne(new) /\ (Exist(n, ps) => Exist(n, new))
  BY <1>1 DEF DefaultsExist, AtMostOne, Exist
<1>4. /\ \A m \in Names : new[m].token = "spent" => memory[p][m].token = "spent"
      /\ \A m \in Names \ {n, loginFor[p]} : new[m].token = memory[p][m].token
  BY <1>1
<1>5. /\ Edited(p, new, n, "idle")
      /\ cmd[p].kind = "update" /\ Exist(n, ps) => Edited(p, new, n, "prompt")
      /\ cmd[p].kind = "create" => Edited(p, new, n, "again")
  BY <1>2, <1>3, <1>4 DEF Edited
<1>6. QED  BY <1>1, <1>5 DEF new

LEMMA CreateSteps == ASSUME Shape, NEW p \in Procs, Create(p) PROVE Step(p)
<1> DEFINE n == cmd[p].name
<1>1. pc[p] = "act" /\ cmd[p].kind = "create" /\ target[p] = NoName /\ n \in Names
  BY ProcessFacts, CommandFacts DEF Create
<1>2. CASE Stop(p)  BY <1>1, <1>2, Stops DEF Labels
<1>3. CASE LogInFor(p, n)  BY <1>1, <1>3, LogsInFor
<1>4. ASSUME NEW makeDefault \in BOOLEAN, ~Exist(n, memory[p]),
             Defaults(memory[p]) = {} => makeDefault,
             SaveFor(p, n, LET ps == [memory[p] EXCEPT
                                ![n] = [token |-> "static", default |-> makeDefault]]
                           IN IF makeDefault THEN SetDefault(n, ps) ELSE ps)
      PROVE  Step(p)
  <2> DEFINE ps == [memory[p] EXCEPT ![n] = [token |-> "static", default |-> makeDefault]]
  <2>1. [token |-> "static", default |-> makeDefault] \in Profile  BY DEF Profile, Tokens
  <2>2. /\ ps \in Profiles /\ ps[n] = [token |-> "static", default |-> makeDefault]
        /\ \A m \in Names \ {n} : ps[m] = memory[p][m]
    BY <1>1, <2>1, ProcessFacts DEF Profiles
  <2> HIDE DEF ps
  <2>3. CASE makeDefault
    <3>1. Edited(p, SetDefault(n, ps), n, "idle") /\ SetDefault(n, ps) \in Profiles
      BY <1>1, <2>2, SetDefaultEdits DEF Exist
    <3>2. SaveFor(p, n, SetDefault(n, ps))  BY <1>4, <2>3 DEF ps
    <3>3. QED  BY <1>1, <3>1, <3>2, Saves
  <2>4. CASE ~makeDefault
    <3>1. PICK m \in Defaults(memory[p]) : TRUE  BY <1>4, <2>4
    <3>2. m \in Names \ {n} /\ ps[m].default
      BY <1>4, <2>2, <3>1, ProcessFacts DEF Defaults, DefaultsExist
    <3>3. ~Bare(ps)  BY <3>2 DEF Bare, Defaults
    <3>4. ~ps[n].default /\ ps[n].token = "static"  BY <2>2, <2>4
    <3>5. DefaultsExist(ps) /\ (AtMostOne(memory[p]) => AtMostOne(ps))
      BY <2>2, <3>4, ProcessFacts DEF DefaultsExist, AtMostOne, Exist
    <3>6. Edited(p, ps, n, "idle")  BY <1>1, <2>2, <3>3, <3>4, <3>5 DEF Edited
    <3>7. SaveFor(p, n, ps)  BY <1>4, <2>4 DEF ps
    <3>8. QED  BY <1>1, <2>2, <3>6, <3>7, Saves
  <2>5. QED  BY <2>3, <2>4
<1>5. QED  BY <1>2, <1>3, <1>4 DEF Create

LEMMA DeleteSteps == ASSUME Shape, NEW p \in Procs, Delete(p) PROVE Step(p)
<1> DEFINE n  == cmd[p].name
           ps == [memory[p] EXCEPT ![n] = Absent]
<1>1. pc[p] = "act" /\ cmd[p].kind = "delete" /\ target[p] = NoName /\ n \in Names
  BY ProcessFacts, CommandFacts DEF Delete
<1>2. CASE Stop(p)  BY <1>1, <1>2, Stops DEF Labels
<1>3. CASE Exist(n, memory[p])
  <2>1. /\ ps \in Profiles /\ ps[n].token = "none" /\ ~ps[n].default
        /\ \A m \in Names \ {n} : ps[m] = memory[p][m]
    BY <1>1, ProcessFacts DEF Profiles, Profile, Tokens, Absent
  <2> HIDE DEF ps
  <2>2. DefaultsExist(ps) /\ (AtMostOne(memory[p]) => AtMostOne(ps))
    BY <2>1, ProcessFacts DEF DefaultsExist, AtMostOne, Exist
  <2>3. mishaps' = mishaps \cup (IF memory[p][n].default THEN {"deleted"} ELSE {})
    BY <1>3 DEF Delete
  <2>4. Bare(ps) => Bare(memory[p]) \/ "deleted" \in mishaps'
    <3>1. CASE memory[p][n].default  BY <2>3, <3>1
    <3>2. CASE ~memory[p][n].default
      <4>1. memory[p] # Nothing  BY <1>1, <1>3, NothingFacts DEF Exist
      <4>2. Defaults(ps) = {} => Defaults(memory[p]) = {}  BY <2>1, <3>2 DEF Defaults
      <4>3. QED  BY <4>1, <4>2 DEF Bare
    <3>3. QED  BY <3>1, <3>2, Zenon
  <2>5. Edited(p, ps, n, "idle")  BY <1>1, <2>1, <2>2, <2>4 DEF Edited
  <2>6. /\ Save(p, ps, "idle") /\ target' = [target EXCEPT ![p] = n]
        /\ UNCHANGED <<file, cmd, loginFor, saved, behind, holding>>
    BY <1>3 DEF Delete, ps
  <2>7. mishaps' \in {mishaps, mishaps \cup {"deleted"}}  BY <2>3
  <2>8. Edit(p)  BY <1>1, <2>1, <2>5, <2>6, <2>7 DEF Edit
  <2>9. QED  BY <2>8 DEF Step
<1>4. QED  BY <1>2, <1>3 DEF Delete

LEMMA SwitchSteps == ASSUME Shape, NEW p \in Procs, Switch(p) PROVE Step(p)
<1> DEFINE n == cmd[p].name
<1>1. pc[p] = "act" /\ cmd[p].kind = "switch" /\ target[p] = NoName /\ n \in Names
  BY ProcessFacts, CommandFacts DEF Switch
<1>2. CASE Stop(p)  BY <1>1, <1>2, Stops DEF Labels
<1>3. CASE LogInFor(p, n)  BY <1>1, <1>3, LogsInFor
<1>4. CASE Exist(n, memory[p]) /\ SaveFor(p, n, SetDefault(n, memory[p]))
  <2>1. Edited(p, SetDefault(n, memory[p]), n, "idle") /\ SetDefault(n, memory[p]) \in Profiles
    BY <1>1, <1>4, ProcessFacts, SetDefaultEdits
  <2>2. QED  BY <1>1, <1>4, <2>1, Saves
<1>5. QED  BY <1>2, <1>3, <1>4 DEF Switch

LEMMA UpdateSteps == ASSUME Shape, NEW p \in Procs, Update(p) PROVE Step(p)
<1>1. pc[p] = "act" /\ cmd[p].kind = "update" /\ target[p] = NoName
  BY ProcessFacts DEF Update
<1>2. CASE Stop(p)  BY <1>1, <1>2, Stops DEF Labels
<1>3. ASSUME NEW n \in Names, Exist(n, memory[p]), LogInFor(p, n) PROVE Step(p)
  BY <1>1, <1>3, LogsInFor
<1>4. ASSUME NEW n \in Names, Exist(n, memory[p]),
             target' = [target EXCEPT ![p] = n],
             Save(p, [memory[p] EXCEPT ![n].default = FALSE], "prompt"),
             UNCHANGED <<file, cmd, loginFor, port, history>>
      PROVE  Step(p)
  <2> DEFINE ps == [memory[p] EXCEPT ![n].default = FALSE]
  <2>1. /\ ps \in Profiles /\ ps[n].token = memory[p][n].token /\ ~ps[n].default
        /\ \A m \in Names \ {n} : ps[m] = memory[p][m]
    BY ProcessFacts, UnsetFacts
  <2> HIDE DEF ps
  <2>2. DefaultsExist(ps) /\ (AtMostOne(memory[p]) => AtMostOne(ps)) /\ Exist(n, ps)
    BY <1>4, <2>1, ProcessFacts DEF DefaultsExist, AtMostOne, Exist
  <2>3. Edited(p, ps, n, "prompt")  BY <1>1, <2>1, <2>2 DEF Edited
  <2>4. Save(p, ps, "prompt")  BY <1>4 DEF ps
  <2>5. Edit(p)  BY <1>1, <1>4, <2>1, <2>3, <2>4 DEF Edit, history
  <2>6. QED  BY <2>5 DEF Step
<1>5. QED  BY <1>2, <1>3, <1>4, ProcessFacts DEF Update

LEMMA SSOSteps == ASSUME Shape, NEW p \in Procs, SSO(p) PROVE Step(p)
<1>1. pc[p] = "act" /\ cmd[p].kind = "sso" /\ target[p] = NoName
  BY ProcessFacts DEF SSO
<1>2. CASE Stop(p)  BY <1>1, <1>2, Stops DEF Labels
<1>3. ASSUME NEW n \in Names, LogInFor(p, n) PROVE Step(p)
  BY <1>1, <1>3, LogsInFor
<1>4. QED  BY <1>2, <1>3, ProcessFacts DEF SSO

\* The steps behind a write or a login.
LEMMA WriteAgainSteps == ASSUME Shape, NEW p \in Procs, WriteAgain(p) PROVE Step(p)
<1>1. pc[p] = "again" /\ target[p] \in Names /\ cmd[p].kind = "create"
  BY DEF WriteAgain, Shape, Places, Place, Bound
<1>2. Edited(p, memory[p], target[p], "idle")  BY <1>1, ProcessFacts DEF Edited
<1>3. target' = [target EXCEPT ![p] = target[p]]  BY DEF WriteAgain, Shape, TypeOK
<1>4. Edit(p)  BY <1>1, <1>2, <1>3, ProcessFacts DEF Edit, WriteAgain, history
<1>5. QED  BY <1>4 DEF Step

LEMMA MakeDefaultSteps == ASSUME Shape, NEW p \in Procs, MakeDefault(p) PROVE Step(p)
<1> DEFINE n == target[p]
<1>1. pc[p] = "prompt" /\ n \in Names /\ Exist(n, memory[p])
  BY DEF MakeDefault, Shape, Places, Place, Bound
<1>2. Edited(p, SetDefault(n, memory[p]), n, "idle") /\ SetDefault(n, memory[p]) \in Profiles
  BY <1>1, ProcessFacts, SetDefaultEdits
<1>3. target' = [target EXCEPT ![p] = n]  BY DEF MakeDefault, Shape, TypeOK
<1>4. Edit(p)  BY <1>1, <1>2, <1>3 DEF Edit, MakeDefault, history
<1>5. QED  BY <1>4 DEF Step

LEMMA LeaveDefaultSteps == ASSUME Shape, NEW p \in Procs, LeaveDefault(p) PROVE Step(p)
<1> DEFINE first  == IF Defaults(memory[p]) = {} THEN {"declined"} ELSE {}
           second == IF p \in holding THEN {"unsaved"} ELSE {}
<1>1. mishaps' = mishaps \cup (first \cup second) /\ first \cup second \in SUBSET {"unsaved", "declined"}
  BY DEF LeaveDefault, EndWith
<1>2. (p \in holding => "unsaved" \in second) /\ (Defaults(memory[p]) = {} => "declined" \in first)
  OBVIOUS
<1>3. pc[p] = "prompt" /\ ~Writing(p) /\ End(p) /\ UNCHANGED <<file, saved>>
  BY DEF LeaveDefault, EndWith, Writing
<1> HIDE DEF first, second
<1>4. Leave(p)  BY <1>1, <1>2, <1>3 DEF Leave
<1>5. QED  BY <1>4 DEF Step

LEMMA KillSteps == ASSUME Shape, NEW p \in Procs, Kill(p) PROVE Step(p)
<1> DEFINE first  == IF Asking(p) THEN {"declined"} ELSE {}
           second == IF p \in holding THEN {"unsaved"} ELSE {}
<1>1. mishaps' = mishaps \cup (first \cup second) /\ first \cup second \in SUBSET {"unsaved", "declined"}
  BY DEF Kill
<1>2. (p \in holding => "unsaved" \in second) /\ (Asking(p) => "declined" \in first)
  OBVIOUS
<1>3. pc[p] # "idle" /\ End(p) /\ UNCHANGED <<file, saved>>  BY DEF Kill
<1> HIDE DEF first, second
<1>4. Leave(p)  BY <1>1, <1>2, <1>3 DEF Leave
<1>5. QED  BY <1>4 DEF Step

LEMMA ValidateSteps == ASSUME Shape, NEW p \in Procs, Validate(p) PROVE Step(p)
<1>1. pc[p] = "validate" /\ target[p] \in Names /\ cmd[p].kind = "use"
  BY DEF Validate, Shape, Places, Place
<1>2. CASE Stop(p)  BY <1>1, <1>2, Stops DEF Labels
<1>3. CASE Save(p, memory[p], "idle") /\ UNCHANGED <<file, cmd, target, loginFor, port, history>>
  <2>1. Edited(p, memory[p], target[p], "idle")  BY <1>1, ProcessFacts DEF Edited
  <2>2. target' = [target EXCEPT ![p] = target[p]]  BY <1>3 DEF Shape, TypeOK
  <2>3. Edit(p)  BY <1>1, <1>3, <2>1, <2>2, ProcessFacts DEF Edit, history
  <2>4. QED  BY <2>3 DEF Step
<1>4. QED  BY <1>2, <1>3 DEF Validate

LEMMA RefreshSteps == ASSUME Shape, NEW p \in Procs, Refresh(p) PROVE Step(p)
<1>1. pc[p] = "refresh" /\ target[p] \in Names /\ cmd[p].kind = "use"
  BY DEF Refresh, Shape, Places, Place
<1>2. CASE Stop(p)  BY <1>1, <1>2, Stops DEF Labels
<1>3. CASE LogIn(p, target[p], target[p])  BY <1>1, <1>3, LogsIn
<1>4. CASE About(p, target[p], "validate")  BY <1>1, <1>4, Abouts
<1>5. CASE Replace(p)  BY <1>5 DEF Step
<1>6. QED  BY <1>1, <1>2, <1>3, <1>4, <1>5 DEF Refresh, Replace

LEMMA ListenSteps == ASSUME Shape, NEW p \in Procs, Listen(p) PROVE Step(p)
<1>1. /\ pc[p] = "login" /\ target[p] \in Names /\ loginFor[p] \in Names
      /\ cmd[p].kind = "update" => Exist(target[p], memory[p])
  BY ProcessFacts DEF Listen
<1>2. /\ target' = [target EXCEPT ![p] = target[p]]
      /\ loginFor' = [loginFor EXCEPT ![p] = loginFor[p]]
  BY DEF Listen, Shape, TypeOK
<1>3. Goes(p, target[p], loginFor[p], "waiting")  BY <1>1, <1>2 DEF Goes, Listen
<1>4. QED  BY <1>1, <1>3 DEF Step, Go

LEMMA AuthorizedSteps == ASSUME Shape, NEW p \in Procs, Authorized(p) PROVE Step(p)
<1> DEFINE n    == target[p]
           o    == loginFor[p]
           ps   == [memory[p] EXCEPT ![o].token = "valid"]
           next == CASE cmd[p].kind = "create" -> "again"
                     [] cmd[p].kind = "update" -> "prompt"
                     [] OTHER -> "idle"
<1>1. /\ pc[p] = "waiting" /\ n \in Names /\ o \in Names
      /\ cmd[p].kind = "update" => Exist(n, memory[p])
  BY ProcessFacts DEF Authorized
<1>2. /\ target' = [target EXCEPT ![p] = n]
      /\ UNCHANGED <<file, cmd, loginFor, saved, behind, holding, mishaps>>
  BY DEF Authorized, Shape, TypeOK, history
<1>3. /\ ps \in Profiles /\ ps[o].token = "valid" /\ ps[o].default = memory[p][o].default
      /\ \A m \in Names \ {o} : ps[m] = memory[p][m]
  BY <1>1, ProcessFacts DEF Profiles, Profile, Tokens
<1> HIDE DEF ps
<1>4. PICK makeDefault \in BOOLEAN : /\ Defaults(memory[p]) = {} => makeDefault
                                     /\ Save(p, LoggedIn(p, makeDefault), next)
  BY DEF Authorized
<1>5. CASE cmd[p].kind = "create" /\ n = o /\ ~makeDefault
  <2>1. Save(p, ps, "again")  BY <1>4, <1>5 DEF LoggedIn, ps
  <2>2. PICK m \in Defaults(memory[p]) : TRUE  BY <1>4, <1>5
  <2>3. m \in Defaults(ps)  BY <1>3, <2>2 DEF Defaults
  <2>4. DefaultsExist(ps) /\ (AtMostOne(memory[p]) => AtMostOne(ps)) /\ ~Bare(ps)
    BY <1>3, <2>3, ProcessFacts DEF DefaultsExist, AtMostOne, Exist, Bare
  <2>5. Edited(p, ps, n, "again")  BY <1>1, <1>3, <1>5, <2>4 DEF Edited
  <2>6. Edit(p)  BY <1>1, <1>2, <1>3, <2>1, <2>5 DEF Edit
  <2>7. QED  BY <2>6 DEF Step
<1>6. CASE ~(cmd[p].kind = "create" /\ n = o /\ ~makeDefault)
  <2>1. Save(p, SetDefault(o, ps), next)  BY <1>4, <1>6 DEF LoggedIn, ps
  <2>2. Exist(o, ps) /\ (Exist(n, memory[p]) => Exist(n, ps))  BY <1>1, <1>3 DEF Exist
  <2>3. /\ \A m \in Names : ps[m].token = "spent" => memory[p][m].token = "spent"
        /\ \A m \in Names \ {n, o} : ps[m].token = memory[p][m].token
    BY <1>3
  <2>4. /\ Edited(p, SetDefault(o, ps), n, "idle") /\ SetDefault(o, ps) \in Profiles
        /\ cmd[p].kind = "update" => Edited(p, SetDefault(o, ps), n, "prompt")
        /\ cmd[p].kind = "create" => Edited(p, SetDefault(o, ps), n, "again")
    BY <1>1, <1>3, <2>2, <2>3, SetDefaultEdits
  <2>5. next \in {"idle", "prompt", "again"} /\ Edited(p, SetDefault(o, ps), n, next)
    BY <2>4
  <2> HIDE DEF next
  <2>6. Edit(p)  BY <1>1, <1>2, <2>1, <2>4, <2>5 DEF Edit
  <2>7. QED  BY <2>6 DEF Step
<1>7. QED  BY <1>5, <1>6

LEMMA Steps == ASSUME Shape, Next PROVE \E p \in Procs : Step(p)
<1>1. PICK p \in Procs :
        \/ \E c \in Commands : Start(p, c)
        \/ Read(p) \/ ReadGarbled(p) \/ Truncate(p) \/ Encode(p)
        \/ WriteAgain(p)
        \/ Act(p) \/ MakeDefault(p) \/ LeaveDefault(p)
        \/ Refresh(p) \/ Validate(p)
        \/ Decline(p) \/ Listen(p) \/ Authorized(p) \/ Unauthorized(p)
        \/ Kill(p)
  BY DEF Next
<1>2. CASE \E c \in Commands : Start(p, c)  BY <1>2 DEF Step
<1>3. CASE Read(p) \/ Truncate(p) \/ Encode(p)  BY <1>3 DEF Step, Reads
<1>4. CASE ReadGarbled(p) \/ Decline(p) \/ Unauthorized(p)
  <2>1. CASE Stop(p)
    BY <1>4, <2>1, Stops DEF ReadGarbled, Decline, Unauthorized, Labels
  <2>2. CASE ReadGarbled(p) /\ ~Stop(p)  BY <2>2 DEF ReadGarbled, Renew, Reads, Step
  <2>3. QED  BY <1>4, <2>1, <2>2 DEF Decline, Unauthorized
<1>5. CASE Act(p)
  BY <1>5, ProcessTokenSteps, MetadataSteps, CreateSteps, DeleteSteps, SwitchSteps,
     UpdateSteps, SSOSteps DEF Act
<1>6. CASE MakeDefault(p) \/ LeaveDefault(p) \/ WriteAgain(p)
  BY <1>6, MakeDefaultSteps, LeaveDefaultSteps, WriteAgainSteps
<1>7. CASE Refresh(p) \/ Validate(p)  BY <1>7, RefreshSteps, ValidateSteps
<1>8. CASE Listen(p) \/ Authorized(p)  BY <1>8, ListenSteps, AuthorizedSteps
<1>9. CASE Kill(p)  BY <1>9, KillSteps
<1>10. QED  BY <1>1, <1>2, <1>3, <1>4, <1>5, <1>6, <1>7, <1>8, <1>9

-----------------------------------------------------------------------------
(* Types, places and the shape of the file.                                *)

LEMMA ShapeInit == Init => Shape
<1> SUFFICES ASSUME Init PROVE Shape  OBVIOUS
<1>1. /\ file \in File /\ file.format \in {"absent", "current", "outdated"}
      /\ OneOf(file.profiles)
      /\ file.format = "absent" => file.profiles = Nothing
  BY FilesAssumption DEF Init
<1>2. file.profiles \in Profiles  BY <1>1 DEF File, Profiles
<1>3. Setting \in Commands /\ Nothing \in Profiles  BY NothingFacts DEF Commands
<1>4. TypeOK  BY <1>1, <1>2, <1>3 DEF Init, TypeOK, Labels, Mishaps
<1>5. Places  BY DEF Init, Places, Place, Away, Bound, Writing
<1>6. WellFormed  BY <1>1, NothingFacts DEF Init, OneOf, WellFormed, DefaultsExist
<1>7. FileSaved  BY <1>1 DEF Init, FileSaved, Profiled
<1>8. QED  BY <1>4, <1>5, <1>6, <1>7 DEF Shape

\* The other processes stay where they are.
LEMMA PlacesElse ==
    ASSUME Shape, NEW p \in Procs,
           \A q \in Procs \ {p} :
              /\ pc'[q] = pc[q] /\ then'[q] = then[q] /\ cmd'[q] = cmd[q] /\ target'[q] = target[q]
              /\ memory'[q] = memory[q] /\ loginFor'[q] = loginFor[q]
              /\ q \in holding' => q \in holding
              /\ q \in behind' => q \in behind \/ ~Away(q),
           Place(p)'
    PROVE  Places'
<1>1. ASSUME NEW q \in Procs \ {p} PROVE Place(q)'
  BY <1>1 DEF Shape, Places, Place, Away, Bound, Writing, Exist
<1>2. QED  BY <1>1 DEF Places

LEMMA ShapeStart == ASSUME Shape, NEW p \in Procs, NEW c \in Commands, Start(p, c) PROVE Shape'
<1>1. TypeOK'  BY DEF Start, Shape, TypeOK, Labels
<1>2. Place(p)'
  BY DEF Start, Shape, TypeOK, Places, Place, Away, Bound, Writing
<1>3. Places'  BY <1>2, PlacesElse DEF Start, Shape, TypeOK
<1>4. WellFormed' /\ FileSaved'  BY DEF Start, Shape, WellFormed, FileSaved, Profiled
<1>5. QED  BY <1>1, <1>3, <1>4 DEF Shape

\* What Read takes into memory.
LEMMA ReadFacts ==
    ASSUME Shape, NEW p \in Procs, Reads(p)
    PROVE  /\ pc[p] = "load"
           /\ \/ memory' = [memory EXCEPT ![p] = MigrateLegacy(file.profiles, file.user)]
              \/ memory' = [memory EXCEPT ![p] = file.profiles] /\ ~NeedsUpdating
              \/ memory' = [memory EXCEPT ![p] = Nothing] /\ p \in behind'
           /\ \/ pc' = [pc EXCEPT ![p] = "truncate"] /\ then' = [then EXCEPT ![p] = "act"]
              \/ pc' = [pc EXCEPT ![p] = "act"] /\ then' = then
           /\ memory'[p] \in Profiles /\ MigrateLegacy(file.profiles, file.user) \in Profiles
           /\ file.profiles \in Profiles /\ file.user \in BOOLEAN
           /\ UNCHANGED <<file, cmd, target, loginFor, saved, holding, mishaps>>
           /\ behind' \in {behind, behind \cup {p}}
           /\ \A q \in Procs \ {p} : memory'[q] = memory[q]
<1>1. file.profiles \in Profiles /\ file.user \in BOOLEAN /\ memory \in [Procs -> Profiles]
  BY DEF Shape, TypeOK, File, Profiles
<1>2. MigrateLegacy(file.profiles, file.user) \in Profiles  BY <1>1, MigrateFacts
<1>3. /\ \/ memory' = [memory EXCEPT ![p] = MigrateLegacy(file.profiles, file.user)]
         \/ memory' = [memory EXCEPT ![p] = file.profiles] /\ ~NeedsUpdating
         \/ memory' = [memory EXCEPT ![p] = Nothing] /\ p \in behind'
      /\ \/ pc' = [pc EXCEPT ![p] = "truncate"] /\ then' = [then EXCEPT ![p] = "act"]
         \/ pc' = [pc EXCEPT ![p] = "act"] /\ then' = then
  BY DEF Reads, Read, Renew, Save
<1>4. /\ pc[p] = "load" /\ UNCHANGED <<file, cmd, target, loginFor, saved, holding, mishaps>>
      /\ behind' \in {behind, behind \cup {p}}
  BY DEF Reads, Read, Renew
<1>5. memory'[p] \in Profiles /\ \A q \in Procs \ {p} : memory'[q] = memory[q]
  BY <1>1, <1>2, <1>3, NothingFacts
<1>6. QED  BY <1>1, <1>2, <1>3, <1>4, <1>5

LEMMA ShapeRead == ASSUME Shape, NEW p \in Procs, Reads(p) PROVE Shape'
<1> USE ReadFacts
<1>1. TypeOK'  BY DEF Shape, TypeOK, Labels
<1>2. Place(p)'
  BY DEF Shape, TypeOK, Places, Place, Away, Bound, Writing
<1>3. Places'  BY <1>2, PlacesElse DEF Shape, TypeOK
<1>4. DefaultsExist(memory'[p])
  <2>1. DefaultsExist(MigrateLegacy(file.profiles, file.user))
    BY MigrateFacts DEF Shape, WellFormed, DefaultsExist, Exist
  <2>2. DefaultsExist(file.profiles)  BY DEF Shape, WellFormed
  <2>3. DefaultsExist(Nothing)  BY NothingFacts DEF DefaultsExist
  <2>4. QED  BY <2>1, <2>2, <2>3 DEF Shape, TypeOK
<1>5. WellFormed'  BY <1>4 DEF Shape, WellFormed, DefaultsExist, Exist
<1>6. FileSaved'  BY DEF Shape, FileSaved, Profiled
<1>7. QED  BY <1>1, <1>3, <1>5, <1>6 DEF Shape

LEMMA ShapeTruncate == ASSUME Shape, NEW p \in Procs, Truncate(p) PROVE Shape'
<1> DEFINE new == [format |-> "empty", user |-> FALSE, profiles |-> Nothing]
<1>1. new \in File  BY NothingFacts DEF File, Profiles
<1>2. TypeOK'  BY <1>1 DEF Truncate, history, Shape, TypeOK, Labels
<1>3. Place(p)'
  BY DEF Truncate, history, Shape, TypeOK, Places, Place, Away, Bound, Writing
<1>4. Places'  BY <1>3, PlacesElse DEF Truncate, history, Shape, TypeOK
<1>5. WellFormed' /\ FileSaved'
  BY NothingFacts DEF Truncate, history, Shape, WellFormed, DefaultsExist, FileSaved, Profiled, Exist
<1>6. QED  BY <1>2, <1>4, <1>5 DEF Shape

\* What Encode leaves behind, but for the places of the other processes.
LEMMA EncodeFacts ==
    ASSUME Shape, NEW p \in Procs, Encode(p)
    PROVE  /\ pc[p] = "encode" /\ pc' = [pc EXCEPT ![p] = then[p]] /\ then[p] \in {"idle", "act", "prompt", "again"}
           /\ file' \in File
           /\ \/ file'.profiles = memory[p] /\ ~file'.user /\ file'.format = "current"
              \/ file'.profiles = Nothing /\ ~file'.user /\ file'.format = "garbled"
           /\ saved' = memory[p] /\ memory[p] \in Profiles
           /\ \A q \in Procs \ {p} : /\ memory'[q] = memory[q] /\ then'[q] = then[q]
                                     /\ cmd'[q] = cmd[q] /\ target'[q] = target[q]
                                     /\ loginFor'[q] = loginFor[q]
           /\ p \notin behind' /\ behind' = {q \in Procs \ {p} : ~Away(q)}
           /\ holding' = holding \ {p}
           /\ mishaps \subseteq mishaps' /\ (p \in behind => "stale" \in mishaps')
           /\ then[p] = "idle" => memory'[p] = Nothing /\ target'[p] = NoName /\ then'[p] = "idle"
                                  /\ cmd'[p] = Setting /\ loginFor'[p] = NoName
           /\ then[p] # "idle" => UNCHANGED <<cmd, memory, target, loginFor, then>>
<1>1. memory[p] \in Profiles /\ then[p] \in {"idle", "act", "prompt", "again"}
  BY DEF Shape, TypeOK
<1> DEFINE current == [format |-> "current", user |-> FALSE, profiles |-> memory[p]]
           garbled == [format |-> "garbled", user |-> FALSE, profiles |-> Nothing]
<1>2. current \in File /\ garbled \in File
  BY <1>1, NothingFacts DEF File, Profiles
<1>a. /\ current.profiles = memory[p] /\ ~current.user /\ current.format = "current"
      /\ garbled.profiles = Nothing /\ ~garbled.user /\ garbled.format = "garbled"
  OBVIOUS
<1>b. file' = current \/ file' = garbled  BY Zenon DEF Encode
<1> HIDE DEF current, garbled
<1>3. /\ file' \in File
      /\ \/ file'.profiles = memory[p] /\ ~file'.user /\ file'.format = "current"
         \/ file'.profiles = Nothing /\ ~file'.user /\ file'.format = "garbled"
  BY <1>2, <1>a, <1>b, Zenon
<1>4. then[p] # "idle" => UNCHANGED <<cmd, memory, target, loginFor, then>>  BY DEF Encode
<1>5. then[p] = "idle" =>
        /\ memory'[p] = Nothing /\ target'[p] = NoName /\ then'[p] = "idle" /\ cmd'[p] = Setting
        /\ loginFor'[p] = NoName
        /\ \A q \in Procs \ {p} : /\ memory'[q] = memory[q] /\ then'[q] = then[q]
                                  /\ cmd'[q] = cmd[q] /\ target'[q] = target[q]
                                  /\ loginFor'[q] = loginFor[q]
  BY DEF Encode, Gone, Shape, TypeOK
<1>6. /\ pc[p] = "encode" /\ pc' = [pc EXCEPT ![p] = then[p]] /\ saved' = memory[p]
      /\ behind' = {q \in Procs \ {p} : ~Away(q)} /\ holding' = holding \ {p}
      /\ mishaps \subseteq mishaps' /\ (p \in behind => "stale" \in mishaps')
  BY DEF Encode, Away
<1>7. \A q \in Procs \ {p} : /\ memory'[q] = memory[q] /\ then'[q] = then[q]
                             /\ cmd'[q] = cmd[q] /\ target'[q] = target[q]
                             /\ loginFor'[q] = loginFor[q]
  BY <1>4, <1>5
<1>8. p \notin behind'  BY <1>6
<1>9. QED  BY <1>1, <1>3, <1>4, <1>5, <1>6, <1>7, <1>8

LEMMA ShapeEncode == ASSUME Shape, NEW p \in Procs, Encode(p) PROVE Shape'
<1> USE EncodeFacts
<1>1. TypeOK'
  <2>1. Setting \in Commands /\ Nothing \in Profiles  BY NothingFacts DEF Commands
  <2>2. /\ memory' \in [Procs -> Profiles] /\ cmd' \in [Procs -> Commands]
        /\ target' \in [Procs -> Names \cup {NoName}]
        /\ loginFor' \in [Procs -> Names \cup {NoName}]
        /\ then' \in [Procs -> {"idle", "act", "prompt", "again"}]
    BY <2>1 DEF Encode, Gone, Shape, TypeOK
  <2>3. mishaps' \subseteq Mishaps  BY DEF Encode, Shape, TypeOK, Mishaps
  <2>4. pc' \in [Procs -> Labels]  BY DEF Shape, TypeOK, Labels
  <2>5. QED  BY <2>2, <2>3, <2>4 DEF Shape, TypeOK
<1>2. Place(p)'
  <2>1. CASE then[p] = "idle"
    BY <2>1 DEF Shape, TypeOK, Places, Place, Away, Bound, Writing
  <2>2. CASE then[p] # "idle"
    BY <2>2 DEF Shape, TypeOK, Places, Place, Away, Bound, Writing
  <2>3. QED  BY <2>1, <2>2
<1>3. Places'  BY <1>2, PlacesElse DEF Shape, TypeOK
<1>4. WellFormed'
  <2>1. DefaultsExist(memory'[p]) /\ DefaultsExist(file'.profiles)
    BY NothingFacts DEF Shape, WellFormed, DefaultsExist
  <2>2. QED  BY <2>1 DEF Shape, WellFormed, DefaultsExist, Exist
<1>5. FileSaved'  BY DEF FileSaved, Profiled
<1>6. QED  BY <1>1, <1>3, <1>4, <1>5 DEF Shape

LEMMA ShapeGo == ASSUME Shape, NEW p \in Procs, Go(p) PROVE Shape'
<1>1. PICK n \in Names, o \in Names \cup {NoName},
           next \in {"refresh", "validate", "login", "waiting"} : Goes(p, n, o, next)
  BY DEF Go
<1>2. TypeOK'  BY <1>1 DEF Goes, history, Shape, TypeOK, Labels
<1>3. Place(p)'
  BY <1>1 DEF Goes, history, Shape, TypeOK, Places, Place, Away, Bound, Writing, Exist
<1>4. Places'  BY <1>1, <1>3, PlacesElse DEF Goes, history, Shape, TypeOK
<1>5. WellFormed' /\ FileSaved'  BY <1>1 DEF Goes, history, Shape, WellFormed, FileSaved, Profiled
<1>6. QED  BY <1>2, <1>4, <1>5 DEF Shape

LEMMA ShapeEdit == ASSUME Shape, NEW p \in Procs, Edit(p) PROVE Shape'
<1>1. PICK ps \in Profiles, n \in Names \cup {NoName}, next \in {"idle", "prompt", "again"} :
        /\ pc[p] \in {"act", "again", "prompt", "validate", "waiting"}
        /\ Save(p, ps, next)
        /\ target' = [target EXCEPT ![p] = n]
        /\ mishaps' \in {mishaps, mishaps \cup {"deleted"}}
        /\ UNCHANGED <<file, cmd, loginFor, saved, behind, holding>>
        /\ Edited(p, ps, n, next)
  BY DEF Edit
<1>2. TypeOK'  BY <1>1 DEF Save, Shape, TypeOK, Labels, Mishaps
<1>3. Place(p)'
  BY <1>1 DEF Save, Edited, Exist, Shape, TypeOK, Place, Away, Bound, Writing
<1>4. Places'  BY <1>1, <1>3, PlacesElse DEF Save, Shape, TypeOK
<1>5. WellFormed'
  BY <1>1 DEF Save, Edited, Exist, Shape, TypeOK, WellFormed, DefaultsExist
<1>6. FileSaved'  BY <1>1 DEF Shape, FileSaved, Profiled
<1>7. QED  BY <1>2, <1>4, <1>5, <1>6 DEF Shape

LEMMA ReplaceFacts ==
    ASSUME Shape, NEW p \in Procs, Replace(p)
    PROVE  LET n == target[p] IN
           /\ n \in Names
           /\ file'.profiles = Spend(file.profiles, n) /\ file.profiles \in Profiles
           /\ file' \in File /\ file'.format = file.format /\ file'.user = file.user
           /\ saved' = Spend(saved, n) /\ saved \in Profiles
           /\ memory'[p] = memory[p] /\ memory \in [Procs -> Profiles]
           /\ \A q \in Procs \ {p} : memory'[q] = Spend(memory[q], n)
           /\ memory' \in [Procs -> Profiles]
           /\ pc[p] = "refresh" /\ pc' = [pc EXCEPT ![p] = "validate"]
           /\ UNCHANGED <<cmd, target, loginFor, then, behind, mishaps>> /\ holding' = holding \cup {p}
<1> DEFINE n == target[p]
<1>1. n \in Names /\ file \in File /\ saved \in Profiles /\ memory \in [Procs -> Profiles]
  BY DEF Replace, Shape, TypeOK, Places, Place
<1>2. file.profiles \in Profiles  BY <1>1 DEF File, Profiles
<1>3. file' = [file EXCEPT !.profiles = Spend(file.profiles, n)]  BY DEF Replace
<1>4. \A ps \in Profiles : Spend(ps, n) \in Profiles  BY <1>1, SpendFacts
<1> HIDE DEF n
<1>5. /\ file' \in File /\ file'.profiles = Spend(file.profiles, n)
      /\ file'.format = file.format /\ file'.user = file.user
  BY <1>1, <1>2, <1>3, <1>4 DEF File, Profiles
<1>6. /\ memory'[p] = memory[p]
      /\ \A q \in Procs \ {p} : memory'[q] = Spend(memory[q], n)
      /\ memory' \in [Procs -> Profiles]
  BY <1>1, <1>4 DEF Replace, n
<1>7. QED  BY <1>1, <1>2, <1>5, <1>6 DEF Replace, n

\* Of a spent token the profile is still there.
LEMMA SpendExists ==
    ASSUME NEW n \in Names, NEW ps \in Profiles
    PROVE  /\ \A m \in Names : Exist(m, Spend(ps, n)) = Exist(m, ps)
           /\ DefaultsExist(ps) => DefaultsExist(Spend(ps, n))
           /\ Spend(ps, n) = Nothing <=> ps = Nothing
           /\ Defaults(Spend(ps, n)) = Defaults(ps)
<1>1. \A m \in Names : Exist(m, Spend(ps, n)) = Exist(m, ps)
  BY SpendFacts DEF Exist
<1>2. Spend(ps, n) \in Profiles /\ \A m \in Names : Spend(ps, n)[m].default = ps[m].default
  BY SpendFacts
<1>3. ps = Nothing => Spend(ps, n) = Nothing
  BY <1>1, <1>2, NothingFacts, NothingElse DEF Exist
<1>4. Spend(ps, n) = Nothing => ps = Nothing
  BY <1>1, <1>2, NothingFacts, NothingElse DEF Exist
<1>5. Defaults(Spend(ps, n)) = Defaults(ps)  BY <1>2 DEF Defaults
<1>6. DefaultsExist(ps) => DefaultsExist(Spend(ps, n))  BY <1>1, <1>2 DEF DefaultsExist
<1>7. QED  BY <1>1, <1>3, <1>4, <1>5, <1>6

LEMMA ShapeReplace == ASSUME Shape, NEW p \in Procs, Replace(p) PROVE Shape'
<1> DEFINE n == target[p]
<1>0. n \in Names  BY ReplaceFacts
<1>1. TypeOK'
  <2>1. saved' \in Profiles  BY ReplaceFacts, SpendFacts
  <2>2. QED  BY <2>1, ReplaceFacts DEF Shape, TypeOK, Labels
<1>2. Place(p)'
  BY ReplaceFacts DEF Shape, TypeOK, Places, Place, Away, Bound, Writing
<1>3. ASSUME NEW q \in Procs \ {p} PROVE Place(q)'
  <2>1. memory'[q] = Spend(memory[q], n) /\ memory[q] \in Profiles  BY ReplaceFacts
  <2>2. /\ memory[q] = Nothing => memory'[q] = Nothing
        /\ \A m \in Names : Exist(m, memory[q])' = Exist(m, memory[q])
    BY <1>0, <2>1, SpendExists DEF Exist
  <2>3. pc'[q] = pc[q] /\ (q \in holding' => q \in holding)
        /\ UNCHANGED <<cmd, target, loginFor, then, behind>>
    BY ReplaceFacts DEF Shape, TypeOK
  <2> HIDE DEF n
  <2>4. QED  BY <2>2, <2>3 DEF Shape, Places, Place, Away, Bound, Writing
<1>4. Places'  BY <1>2, <1>3 DEF Places
<1>5. WellFormed'
  <2>1. DefaultsExist(file'.profiles)
    BY <1>0, ReplaceFacts, SpendExists DEF Shape, WellFormed
  <2>2. \A q \in Procs : DefaultsExist(memory'[q])
    BY <1>0, ReplaceFacts, SpendExists DEF Shape, WellFormed
  <2>3. QED  BY <2>1, <2>2 DEF WellFormed, DefaultsExist, Exist
<1>6. FileSaved'
  BY <1>0, ReplaceFacts, SpendExists DEF Shape, FileSaved, Profiled
<1>7. QED  BY <1>1, <1>4, <1>5, <1>6 DEF Shape

LEMMA LeaveFacts ==
    ASSUME Shape, NEW p \in Procs, Leave(p)
    PROVE  /\ pc' = [pc EXCEPT ![p] = "idle"] /\ pc[p] # "idle"
           /\ cmd'[p] = Setting /\ memory'[p] = Nothing /\ target'[p] = NoName /\ then'[p] = "idle"
           /\ loginFor'[p] = NoName
           /\ \A q \in Procs \ {p} :
                 /\ cmd'[q] = cmd[q] /\ memory'[q] = memory[q] /\ target'[q] = target[q]
                 /\ loginFor'[q] = loginFor[q] /\ then'[q] = then[q] /\ pc'[q] = pc[q]
           /\ behind' = behind \ {p} /\ holding' = holding \ {p}
           /\ mishaps \subseteq mishaps' /\ (p \in holding => "unsaved" \in mishaps')
           /\ Asking(p) /\ (Writing(p) \/ (pc[p] = "prompt" /\ Defaults(memory[p]) = {}))
                 => "declined" \in mishaps'
           /\ UNCHANGED <<file, saved>>
<1>1. /\ pc' = [pc EXCEPT ![p] = "idle"] /\ pc[p] # "idle" /\ UNCHANGED <<file, saved>>
      /\ behind' = behind \ {p} /\ holding' = holding \ {p}
  BY DEF Leave, End
<1>2. /\ cmd'[p] = Setting /\ memory'[p] = Nothing /\ target'[p] = NoName /\ then'[p] = "idle"
      /\ loginFor'[p] = NoName
      /\ \A q \in Procs \ {p} :
            /\ cmd'[q] = cmd[q] /\ memory'[q] = memory[q] /\ target'[q] = target[q]
            /\ loginFor'[q] = loginFor[q] /\ then'[q] = then[q] /\ pc'[q] = pc[q]
  BY DEF Leave, End, Gone, Shape, TypeOK
<1>3. /\ mishaps \subseteq mishaps' /\ (p \in holding => "unsaved" \in mishaps')
      /\ Asking(p) /\ (Writing(p) \/ (pc[p] = "prompt" /\ Defaults(memory[p]) = {}))
            => "declined" \in mishaps'
  BY DEF Leave
<1>4. QED  BY <1>1, <1>2, <1>3

LEMMA ShapeLeave == ASSUME Shape, NEW p \in Procs, Leave(p) PROVE Shape'
<1>1. TypeOK'
  <2>1. Setting \in Commands /\ Nothing \in Profiles  BY NothingFacts DEF Commands
  <2>2. /\ memory' \in [Procs -> Profiles] /\ cmd' \in [Procs -> Commands]
        /\ target' \in [Procs -> Names \cup {NoName}]
        /\ loginFor' \in [Procs -> Names \cup {NoName}]
        /\ then' \in [Procs -> {"idle", "act", "prompt", "again"}]
    BY <2>1 DEF Leave, End, Gone, Shape, TypeOK
  <2>3. mishaps' \subseteq Mishaps  BY DEF Leave, Shape, TypeOK, Mishaps
  <2>4. pc' \in [Procs -> Labels]  BY DEF Leave, End, Shape, TypeOK, Labels
  <2>5. QED  BY <2>2, <2>3, <2>4, LeaveFacts DEF Shape, TypeOK
<1>2. Place(p)'
  BY LeaveFacts DEF Shape, TypeOK, Places, Place, Away, Bound, Writing
<1>3. Places'  BY <1>2, LeaveFacts, PlacesElse
<1>4. WellFormed'
  <2>1. DefaultsExist(memory'[p])  BY LeaveFacts, NothingFacts DEF DefaultsExist
  <2>2. QED  BY <2>1, LeaveFacts DEF Shape, WellFormed, DefaultsExist, Exist
<1>5. FileSaved'  BY LeaveFacts DEF Shape, FileSaved, Profiled
<1>6. QED  BY <1>1, <1>3, <1>4, <1>5 DEF Shape

LEMMA ShapeNext == Shape /\ [Next]_vars => Shape'
<1> SUFFICES ASSUME Shape, [Next]_vars PROVE Shape'  OBVIOUS
<1>1. CASE Next
  <2>1. PICK p \in Procs : Step(p)  BY <1>1, Steps
  <2>2. QED
    BY <2>1, ShapeStart, ShapeRead, ShapeTruncate, ShapeEncode, ShapeGo, ShapeEdit,
       ShapeReplace, ShapeLeave DEF Step
<1>2. CASE UNCHANGED vars
  BY <1>2 DEF vars, history, Shape, TypeOK, Places, Place, Away, Bound, Writing, WellFormed,
              DefaultsExist, Exist, FileSaved, Profiled
<1>3. QED  BY <1>1, <1>2

\* However processes overlap and are killed: what is on file, in memory and in
\* hand has its type, where a process stands says which profile it is about
\* (src/pkg/config/config.go, src/pkg/app/run.go), and a file that parses holds
\* the last copy that was written.
THEOREM ShapeAlways == Spec => []Shape
<1>1. QED  BY ShapeInit, ShapeNext, PTL DEF Spec

-----------------------------------------------------------------------------
(* One default.                                                            *)

\* No copy names two defaults, and a legacy user has no profiles beside it.
OnePlace ==
    "hybrid" \notin mishaps =>
        /\ AtMostOne(file.profiles)
        /\ \A p \in Procs : AtMostOne(memory[p])
        /\ file.user => file.profiles = Nothing

LEMMA OnePlaceInit == Init => OnePlace
<1> SUFFICES ASSUME Init, "hybrid" \notin mishaps PROVE OnePlace  BY DEF OnePlace
<1>1. OneOf(file.profiles) /\ (file.user => file.profiles = Nothing)
  BY FilesAssumption DEF Init
<1>2. AtMostOne(file.profiles)
  <2>1. ASSUME NEW m \in Names, NEW n \in Names, file.profiles[m].default, file.profiles[n].default
        PROVE  m = n
    <3>1. Defaults(file.profiles) = {m} /\ Defaults(file.profiles) = {n}
      BY <1>1, <2>1 DEF OneOf
    <3>2. QED  BY <3>1
  <2>2. QED  BY <2>1 DEF AtMostOne
<1>3. \A p \in Procs : AtMostOne(memory[p])  BY NothingFacts DEF Init, AtMostOne
<1>4. QED  BY <1>1, <1>2, <1>3 DEF OnePlace

LEMMA OnePlaceStep == ASSUME Shape, OnePlace, NEW p \in Procs, Step(p) PROVE OnePlace'
<1> SUFFICES ASSUME "hybrid" \notin mishaps' PROVE OnePlace'  BY DEF OnePlace
<1> DEFINE One == /\ AtMostOne(file.profiles)
                  /\ \A q \in Procs : AtMostOne(memory[q])
                  /\ file.user => file.profiles = Nothing
<1>0. AtMostOne(Nothing)  BY NothingFacts DEF AtMostOne
<1>1. CASE \E c \in Commands : Start(p, c)
  BY <1>1 DEF Start, OnePlace, AtMostOne
<1>2. CASE Reads(p)
  <2>1. One  BY <1>2, ReadFacts DEF OnePlace
  <2>2. AtMostOne(MigrateLegacy(file.profiles, file.user))
    BY <1>2, <2>1, ReadFacts, MigrateFacts, NothingFacts DEF AtMostOne
  <2>3. AtMostOne(memory'[p])  BY <1>0, <1>2, <2>1, <2>2, ReadFacts DEF Shape, TypeOK
  <2>4. QED  BY <1>2, <2>1, <2>3, ReadFacts DEF OnePlace, AtMostOne
<1>3. CASE Truncate(p)
  BY <1>3, NothingFacts DEF Truncate, history, OnePlace, AtMostOne
<1>4. CASE Encode(p)
  <2>1. One  BY <1>4, EncodeFacts DEF OnePlace
  <2>2. \A q \in Procs : memory'[q] \in {memory[q], Nothing}
    BY <1>4, EncodeFacts
  <2>3. AtMostOne(file'.profiles) /\ ~file'.user  BY <1>0, <1>4, <2>1, EncodeFacts DEF AtMostOne
  <2>4. \A q \in Procs : AtMostOne(memory'[q])  BY <1>0, <2>1, <2>2 DEF AtMostOne
  <2>5. QED  BY <2>3, <2>4 DEF OnePlace, AtMostOne
<1>5. CASE Go(p)
  BY <1>5 DEF Go, Goes, history, OnePlace, AtMostOne
<1>6. CASE Edit(p)
  <2>1. "hybrid" \notin mishaps /\ UNCHANGED file  BY <1>6 DEF Edit
  <2>2. PICK ps \in Profiles : /\ AtMostOne(memory[p]) => AtMostOne(ps)
                               /\ memory' = [memory EXCEPT ![p] = ps]
    BY <1>6 DEF Edit, Edited, Save
  <2>3. \A q \in Procs : AtMostOne(memory'[q])  BY <2>1, <2>2 DEF Shape, TypeOK, OnePlace
  <2>4. QED  BY <2>1, <2>3 DEF OnePlace, AtMostOne
<1>7. CASE Replace(p)
  <2>1. One /\ target[p] \in Names  BY <1>7, ReplaceFacts DEF OnePlace
  <2>2. \A ps \in Profiles : AtMostOne(ps) => AtMostOne(Spend(ps, target[p]))
    BY <2>1, SpendFacts DEF AtMostOne
  <2>3. AtMostOne(file'.profiles) /\ \A q \in Procs : AtMostOne(memory'[q])
    BY <1>7, <2>1, <2>2, ReplaceFacts
  <2>4. file'.user => file'.profiles = Nothing  BY <1>7, <2>1, ReplaceFacts, SpendExists
  <2>5. QED  BY <2>3, <2>4 DEF OnePlace, AtMostOne
<1>8. CASE Leave(p)
  <2>1. One  BY <1>8, LeaveFacts DEF OnePlace
  <2>2. \A q \in Procs : AtMostOne(memory'[q])  BY <1>0, <1>8, <2>1, LeaveFacts
  <2>3. QED  BY <1>8, <2>1, <2>2, LeaveFacts DEF OnePlace, AtMostOne
<1>9. QED  BY <1>1, <1>2, <1>3, <1>4, <1>5, <1>6, <1>7, <1>8 DEF Step

LEMMA OnePlaceNext == OnePlace /\ Shape /\ [Next]_vars => OnePlace'
<1>1. OnePlace /\ Shape /\ Next => OnePlace'  BY Steps, OnePlaceStep
<1>2. OnePlace /\ UNCHANGED vars => OnePlace'  BY DEF vars, history, OnePlace, AtMostOne
<1>3. QED  BY <1>1, <1>2

\* No file ever names two default profiles, unless it started as one that had
\* profiles and a legacy user (MigrateLegacy, src/pkg/config/config.go;
\* SetDefault, src/pkg/profile/profile.go).
THEOREM OneDefaultAlways == Spec => []OneDefault
<1>1. OnePlace => OneDefault
  <2> SUFFICES ASSUME AtMostOne(file.profiles) PROVE ~(Cardinality(Defaults(file.profiles)) > 1)
    BY DEF OnePlace, OneDefault
  <2>1. CASE Defaults(file.profiles) = {}  BY <2>1, FS_EmptySet
  <2>2. CASE \E n \in Names : Defaults(file.profiles) = {n}  BY <2>2, FS_Singleton
  <2>3. Defaults(file.profiles) = {} \/ \E n \in Names : Defaults(file.profiles) = {n}
    BY DEF AtMostOne, Defaults
  <2>4. QED  BY <2>1, <2>2, <2>3
<1>2. QED  BY OnePlaceInit, OnePlaceNext, ShapeAlways, <1>1, PTL DEF Spec

-----------------------------------------------------------------------------
(* Tokens the authority accepts.                                           *)

Spent(ps) == \E n \in Names : ps[n].token = "spent"

\* As long as no outdated copy is written and no token lost, a spent token on
\* file has a process that holds its successor, and one in an up-to-date copy
\* has another process that does.
Held ==
    mishaps \cap {"stale", "unsaved"} = {} =>
        /\ Spent(file.profiles) => holding # {}
        /\ \A p \in Procs \ behind : Spent(memory[p]) => holding \ {p} # {}

LEMMA HeldStep == ASSUME Shape, Held, NEW p \in Procs, Step(p) PROVE Held'
<1> SUFFICES ASSUME mishaps' \cap {"stale", "unsaved"} = {} PROVE Held'  BY DEF Held
<1> DEFINE Now == /\ Spent(file.profiles) => holding # {}
                  /\ \A q \in Procs \ behind : Spent(memory[q]) => holding \ {q} # {}
           Then == /\ Spent(file'.profiles) => holding' # {}
                   /\ \A q \in Procs \ behind' : Spent(memory'[q]) => holding' \ {q} # {}
<1>a. mishaps \subseteq mishaps' => Now  BY DEF Held
<1>b. Then => Held'  BY DEF Held, Spent
<1>c. ~Spent(Nothing)  BY NothingFacts DEF Spent
<1> HIDE DEF Then
<1>1. CASE \E c \in Commands : Start(p, c)
  BY <1>1, <1>a, <1>b DEF Start, Then
<1>2. CASE Reads(p)
  <2>1. Now /\ p \notin holding  BY <1>2, <1>a, ReadFacts DEF Shape, Places, Place, Away
  <2>2. Spent(MigrateLegacy(file.profiles, file.user)) => Spent(file.profiles)
    BY <1>2, ReadFacts, MigrateFacts DEF Spent
  <2>3. Spent(memory'[p]) => Spent(file.profiles)
    BY <1>2, <1>c, <2>2, ReadFacts DEF Shape, TypeOK
  <2>4. Then  BY <1>2, <2>1, <2>3, ReadFacts DEF Then
  <2>5. QED  BY <1>b, <2>4
<1>3. CASE Truncate(p)
  <2>1. Now  BY <1>3, <1>a DEF Truncate, history
  <2>2. Then  BY <1>3, <1>c, <2>1 DEF Truncate, history, Then
  <2>3. QED  BY <1>b, <2>2
<1>4. CASE Encode(p)
  <2>1. Now /\ p \notin behind  BY <1>4, <1>a, EncodeFacts
  <2>2. Spent(file'.profiles) => holding' # {}
    BY <1>4, <1>c, <2>1, EncodeFacts
  <2>3. Spent(memory'[p]) => holding' \ {p} # {}
    BY <1>4, <1>c, <2>1, EncodeFacts
  <2>4. \A q \in Procs \ behind' : q # p => ~Spent(memory'[q])
    BY <1>4, <1>c, EncodeFacts DEF Shape, Places, Place
  <2>5. Then  BY <2>2, <2>3, <2>4 DEF Then
  <2>6. QED  BY <1>b, <2>5
<1>5. CASE Go(p)
  BY <1>5, <1>a, <1>b DEF Go, Goes, history, Then
<1>6. CASE Edit(p)
  <2>1. Now /\ UNCHANGED <<file, holding, behind>>  BY <1>6, <1>a DEF Edit
  <2>2. PICK ps \in Profiles : /\ Spent(ps) => Spent(memory[p])
                               /\ memory' = [memory EXCEPT ![p] = ps]
    BY <1>6 DEF Edit, Edited, Save, Spent
  <2>3. \A q \in Procs : Spent(memory'[q]) => Spent(memory[q])
    BY <2>2 DEF Shape, TypeOK
  <2>4. Then  BY <2>1, <2>3 DEF Then
  <2>5. QED  BY <1>b, <2>4
<1>7. CASE Replace(p)
  <2>1. Now  BY <1>7, <1>a, ReplaceFacts
  <2>2. Then  BY <1>7, <2>1, ReplaceFacts DEF Then
  <2>3. QED  BY <1>b, <2>2
<1>8. CASE Leave(p)
  <2>1. Now /\ holding' = holding  BY <1>8, <1>a, LeaveFacts
  <2>2. Then  BY <1>8, <1>c, <2>1, LeaveFacts DEF Then
  <2>3. QED  BY <1>b, <2>2
<1>9. QED  BY <1>1, <1>2, <1>3, <1>4, <1>5, <1>6, <1>7, <1>8 DEF Step

\* The refresh token on file is the one the authority accepts, whatever
\* refreshes and logins went before, unless an outdated copy was written, or a
\* process was killed or failed between the refresh and the write
\* (checkAndRefreshSSOToken, src/pkg/app/run.go; processProfiles,
\* src/pkg/commands/sso/root.go).
THEOREM TokensAcceptedAlways == Spec => []TokensAccepted
<1>1. Init => Held
  <2> SUFFICES ASSUME Init PROVE Held  OBVIOUS
  <2>1. ~Spent(file.profiles)  BY FilesAssumption DEF Init, OneOf, Spent
  <2>2. \A p \in Procs : ~Spent(memory[p])  BY NothingFacts DEF Init, Spent
  <2>3. QED  BY <2>1, <2>2 DEF Held
<1>2. Held /\ Shape /\ [Next]_vars => Held'
  <2>1. Held /\ Shape /\ Next => Held'  BY Steps, HeldStep
  <2>2. Held /\ UNCHANGED vars => Held'  BY DEF vars, history, Held, Spent
  <2>3. QED  BY <2>1, <2>2
<1>3. Held => TokensAccepted  BY DEF Held, Spent, TokensAccepted
<1>4. QED  BY ShapeAlways, <1>1, <1>2, <1>3, PTL DEF Spec

-----------------------------------------------------------------------------
(* The other profiles.                                                     *)

\* An up-to-date copy has the tokens that were saved, but for the profile its
\* command is about and the one it logs in for.
Kept(p) == \A n \in Names \ {target[p], loginFor[p]} :
               Exist(n, saved) => memory[p][n].token = saved[n].token

CopiesKept ==
    "hybrid" \notin mishaps => \A p \in Procs \ behind : Away(p) \/ Kept(p)

LEMMA CopiesKeptStep ==
    ASSUME Shape, OnePlace, CopiesKept, NEW p \in Procs, Step(p) PROVE CopiesKept'
<1> SUFFICES ASSUME "hybrid" \notin mishaps' PROVE CopiesKept'  BY DEF CopiesKept
<1> DEFINE Now == \A q \in Procs \ behind : Away(q) \/ Kept(q)
<1>a. mishaps \subseteq mishaps' =>
        /\ Now
        /\ file.user => file.profiles = Nothing
  BY DEF CopiesKept, OnePlace
\* The other processes, as long as nothing is saved, and p.
<1>b. ASSUME Now, saved' = saved, behind \subseteq behind' \cup {p},
             \A q \in Procs \ {p} : /\ pc'[q] = pc[q] /\ memory'[q] = memory[q]
                                     /\ target'[q] = target[q] /\ loginFor'[q] = loginFor[q],
             p \in Procs \ behind' => Away(p)' \/ Kept(p)'
      PROVE  CopiesKept'
  BY <1>b DEF CopiesKept, Away, Kept, Exist
<1>1. CASE \E c \in Commands : Start(p, c)
  BY <1>1, <1>a, <1>b DEF Start, Shape, TypeOK, Away
<1>2. CASE Reads(p)
  <2>1. Now /\ (file.user => file.profiles = Nothing)  BY <1>2, <1>a, ReadFacts
  <2>2. CASE p \in behind'
    BY <1>2, <1>b, <2>1, <2>2, ReadFacts DEF Shape, TypeOK
  <2>3. CASE p \notin behind'
    <3>1. file.profiles = saved
      BY <1>2, <2>3 DEF Reads, Read, Renew, Shape, FileSaved
    <3>2. ~file.user => memory'[p] = file.profiles
      BY <1>2, <2>3, ReadFacts, MigrateFacts DEF Shape, TypeOK
    <3>3. Kept(p)'
      BY <1>2, <2>1, <3>1, <3>2, ReadFacts, NothingFacts DEF Kept, Exist
    <3>4. QED  BY <1>2, <1>b, <2>1, <3>3, ReadFacts DEF Shape, TypeOK
  <2>4. QED  BY <2>2, <2>3
<1>3. CASE Truncate(p)
  <2>1. p \in Procs \ behind' => Kept(p)'
    BY <1>3, <1>a DEF Truncate, history, Kept, Exist, Away
  <2>2. QED  BY <1>3, <1>a, <1>b, <2>1 DEF Truncate, history, Shape, TypeOK
<1>4. CASE Encode(p)
  <2>1. Away(p)' \/ Kept(p)'
    BY <1>4, EncodeFacts DEF Away, Kept, Shape, TypeOK
  <2>2. \A q \in Procs \ behind' : q # p => Away(q)'
    BY <1>4, EncodeFacts DEF Away, Shape, TypeOK
  <2>3. QED  BY <2>1, <2>2 DEF CopiesKept
<1>5. CASE Go(p)
  <2>1. PICK n \in Names, o \in Names \cup {NoName},
             next \in {"refresh", "validate", "login", "waiting"} :
          /\ pc[p] \in {"act", "refresh", "login"}
          /\ target[p] \in {NoName, n} /\ loginFor[p] \in {NoName, o}
          /\ pc' = [pc EXCEPT ![p] = next]
          /\ target' = [target EXCEPT ![p] = n]
          /\ loginFor' = [loginFor EXCEPT ![p] = o]
          /\ UNCHANGED <<memory, history>>
    BY <1>5 DEF Go, Goes
  <2>2. p \in Procs \ behind' => Kept(p)'
    BY <1>a, <2>1, ConfigurationAssumption DEF history, Kept, Exist, Away, Shape, TypeOK
  <2>3. QED  BY <1>a, <1>b, <2>1, <2>2 DEF history, Shape, TypeOK
<1>6. CASE Edit(p)
  <2>1. PICK ps \in Profiles, n \in Names \cup {NoName}, next \in {"idle", "prompt", "again"} :
          /\ pc[p] \in {"act", "again", "prompt", "validate", "waiting"}
          /\ target[p] \in {NoName, n}
          /\ Save(p, ps, next)
          /\ target' = [target EXCEPT ![p] = n]
          /\ \A m \in Names \ {n, loginFor[p]} : ps[m].token = memory[p][m].token
          /\ mishaps \subseteq mishaps' /\ UNCHANGED <<saved, behind, loginFor>>
    BY <1>6 DEF Edit, Edited
  <2>2. p \in Procs \ behind' => Kept(p)'
    BY <1>a, <2>1, ConfigurationAssumption DEF Save, Kept, Exist, Away, Shape, TypeOK
  <2>3. QED  BY <1>a, <1>b, <2>1, <2>2 DEF Save, Shape, TypeOK
<1>7. CASE Replace(p)
  <2> DEFINE n == target[p]
  <2>1. Now /\ n \in Names  BY <1>7, <1>a, ReplaceFacts
  <2>2. /\ \A m \in Names : Exist(m, saved)' = Exist(m, saved)
        /\ \A m \in Names \ {n} : saved'[m].token = saved[m].token
    BY <1>7, <2>1, ReplaceFacts, SpendExists, SpendFacts DEF Exist
  <2>3. Away(p) \/ Kept(p) => Away(p)' \/ Kept(p)'
    BY <1>7, <2>2, ReplaceFacts DEF Away, Kept
  <2>4. ASSUME NEW q \in Procs \ {p}, Kept(q) PROVE Kept(q)'
    <3>1. memory'[q] = Spend(memory[q], n) /\ saved' = Spend(saved, n)
         /\ target'[q] = target[q] /\ loginFor'[q] = loginFor[q]
      BY <1>7, ReplaceFacts
    <3>2. memory[q] \in Profiles /\ saved \in Profiles  BY DEF Shape, TypeOK
    <3> HIDE DEF n
    <3>3. QED  BY <2>1, <2>2, <2>4, <3>1, <3>2, SpendFacts DEF Kept
  <2>5. \A q \in Procs \ {p} : Away(q)' = Away(q)
    BY <1>7, ReplaceFacts DEF Away, Shape, TypeOK
  <2>6. behind' = behind  BY <1>7, ReplaceFacts
  <2>7. QED  BY <2>1, <2>3, <2>4, <2>5, <2>6 DEF CopiesKept
<1>8. CASE Leave(p)
  BY <1>8, <1>a, <1>b, LeaveFacts DEF Away, Shape, TypeOK
<1>9. QED  BY <1>1, <1>2, <1>3, <1>4, <1>5, <1>6, <1>7, <1>8 DEF Step

\* A process whose copy is what was saved last changes no token but that of
\* the profile its command is about and, after a login, that of the profile
\* which fastly.toml or --profile names (Read and Write,
\* src/pkg/config/config.go; identifyProfileAndFlow,
\* src/pkg/commands/sso/root.go).
THEOREM OthersKeptAlways == Spec => OthersKept
<1>1. Init => CopiesKept  BY DEF Init, CopiesKept, Away
<1>2. CopiesKept /\ OnePlace /\ Shape /\ [Next]_vars => CopiesKept'
  <2>1. CopiesKept /\ OnePlace /\ Shape /\ Next => CopiesKept'  BY Steps, CopiesKeptStep
  <2>2. CopiesKept /\ UNCHANGED vars => CopiesKept'
    BY DEF vars, history, CopiesKept, Away, Kept, Exist
  <2>3. QED  BY <2>1, <2>2
<1>3. CopiesKept /\ Shape /\ [Next]_vars =>
        [\A p \in Procs \ behind :
            pc[p] = "encode" /\ pc'[p] # "encode" /\ saved' # saved /\ "hybrid" \notin mishaps =>
            \A n \in Names \ {target[p], loginFor[p]} :
                Exist(n, saved) => saved'[n].token = saved[n].token]_vars
  <2> SUFFICES ASSUME CopiesKept, Shape, Next, NEW p \in Procs \ behind,
                      pc[p] = "encode", pc'[p] # "encode", saved' # saved, "hybrid" \notin mishaps
               PROVE  \A n \in Names \ {target[p], loginFor[p]} :
                          Exist(n, saved) => saved'[n].token = saved[n].token
    BY DEF vars
  <2>1. PICK q \in Procs : Step(q)  BY Steps
  <2>2. CASE Encode(q)
    <3>1. q = p  BY <2>2, EncodeFacts DEF Shape, TypeOK
    <3>2. Kept(p)  BY DEF CopiesKept, Away
    <3>3. QED  BY <2>2, <3>1, <3>2, EncodeFacts DEF Kept
  <2>3. CASE Replace(q)  BY <2>3, ReplaceFacts DEF Shape, TypeOK
  <2>4. CASE \/ \E c \in Commands : Start(q, c)
             \/ Reads(q) \/ Truncate(q) \/ Go(q) \/ Edit(q) \/ Leave(q)
    BY <2>4 DEF Start, Reads, Read, Renew, Truncate, Go, Goes, Edit, Leave, history
  <2>5. QED  BY <2>1, <2>2, <2>3, <2>4 DEF Step
<1>4. QED
  BY OnePlaceInit, OnePlaceNext, ShapeAlways, <1>1, <1>2, <1>3, PTL DEF Spec, OthersKept

-----------------------------------------------------------------------------
(* A default is kept.                                                      *)

\* An update has taken the default from its copy, and is about to save that
\* (Taking), or has saved it, and has the user's answer or waits for it (Took).
Taking(p) == Asking(p) /\ Writing(p) /\ then[p] = "prompt"
Took(p)   == Asking(p) /\ \/ pc[p] = "prompt" /\ Bare(memory[p])
                          \/ Writing(p) /\ then[p] = "idle"

\* Unless the user has given the default up, or an outdated copy was written:
\* profiles without a default, on file or in an up-to-date copy, are the doing
\* of such an update, and its second write brings a default.
DefaultsKept ==
    mishaps \cap {"declined", "deleted", "stale"} = {} =>
        /\ Profiled /\ Bare(file.profiles) => \E r \in Procs : Took(r)
        /\ \A p \in Procs \ behind :
              Bare(memory[p]) => Taking(p) \/ \E r \in Procs : Took(r)
        /\ \A p \in Procs :
              Asking(p) /\ Writing(p) /\ then[p] = "idle" => Defaults(memory[p]) # {}

LEMMA BareFacts ==
    /\ ~Bare(Nothing)
    /\ \A n \in Names : \A ps \in Profiles : Bare(Spend(ps, n)) = Bare(ps)
BY SpendExists DEF Bare

\* A step of p leaves the others as they are.
LEMMA TookElse ==
    ASSUME Shape, NEW p \in Procs, Step(p), NEW r \in Procs \ {p}
    PROVE  /\ Took(r)' = Took(r) /\ Taking(r)' = Taking(r)
           /\ (Asking(r) /\ Writing(r) /\ then[r] = "idle")' =
                  (Asking(r) /\ Writing(r) /\ then[r] = "idle")
           /\ Bare(memory'[r]) = Bare(memory[r]) /\ Defaults(memory'[r]) = Defaults(memory[r])
<1>1. pc'[r] = pc[r] /\ then'[r] = then[r] /\ cmd'[r] = cmd[r] /\ target'[r] = target[r]
  <2>1. CASE \/ \E c \in Commands : Start(p, c)
             \/ Truncate(p) \/ Go(p) \/ Edit(p)
    BY <2>1 DEF Start, Truncate, Go, Goes, Edit, Save, Shape, TypeOK
  <2>2. CASE Reads(p) \/ Encode(p) \/ Replace(p) \/ Leave(p)
    BY <2>2, ReadFacts, EncodeFacts, ReplaceFacts, LeaveFacts DEF Shape, TypeOK
  <2>3. QED  BY <2>1, <2>2 DEF Step
<1>2. \/ memory'[r] = memory[r]
      \/ target[p] \in Names /\ memory[r] \in Profiles /\ memory'[r] = Spend(memory[r], target[p])
  <2>1. CASE \/ \E c \in Commands : Start(p, c)
             \/ Truncate(p) \/ Go(p) \/ Edit(p)
    BY <2>1 DEF Start, Truncate, Go, Goes, Edit, Save, Shape, TypeOK
  <2>2. CASE Reads(p) \/ Encode(p) \/ Replace(p) \/ Leave(p)
    BY <2>2, ReadFacts, EncodeFacts, ReplaceFacts, LeaveFacts DEF Shape, TypeOK
  <2>3. QED  BY <2>1, <2>2 DEF Step
<1>3. Bare(memory'[r]) = Bare(memory[r]) /\ Defaults(memory'[r]) = Defaults(memory[r])
  BY <1>2, BareFacts, SpendExists
<1>4. Asking(r)' = Asking(r) /\ Writing(r)' = Writing(r)
  BY <1>1 DEF Asking, Writing
<1>5. Took(r)' = Took(r) /\ Taking(r)' = Taking(r)
  BY <1>1, <1>3, <1>4 DEF Took, Taking, Bare, Defaults
<1>6. QED  BY <1>1, <1>3, <1>4, <1>5

\* What a step of p has to show for the three parts of DefaultsKept.
LEMMA DefaultsKeptBy ==
    ASSUME Shape, DefaultsKept, NEW p \in Procs, Step(p),
           mishaps \cap {"declined", "deleted", "stale"} = {},
           \* what p took or takes, it still does, or a default is back on file
           Took(p) => Took(p)' \/ (~Bare(file'.profiles) /\
                                   \A q \in Procs \ behind' : q # p => ~Bare(memory'[q])),
           \* the file and its format
           Profiled' /\ Bare(file'.profiles) =>
               \/ Profiled /\ Bare(file.profiles) /\ (Took(p) => Took(p)')
               \/ Took(p)' \/ \E r \in Procs \ {p} : Took(r),
           \* the copy of p, and of the others
           p \notin behind' /\ Bare(memory'[p]) =>
               \/ Taking(p)' \/ Took(p)' \/ \E r \in Procs \ {p} : Took(r),
           behind \subseteq behind' \cup {p} \/ \A q \in Procs \ behind' : q # p => ~Bare(memory'[q]),
           (Asking(p) /\ Writing(p) /\ then[p] = "idle")' => Defaults(memory'[p]) # {}
    PROVE  DefaultsKept'
<1>1. ASSUME Profiled', Bare(file'.profiles) PROVE \E r \in Procs : Took(r)'
  BY <1>1, TookElse DEF DefaultsKept
<1>2. ASSUME NEW q \in Procs \ behind', Bare(memory'[q])
      PROVE  Taking(q)' \/ \E r \in Procs : Took(r)'
  <2>1. CASE q = p  BY <1>2, <2>1, TookElse
  <2>2. CASE q # p
    <3>1. q \notin behind /\ Bare(memory[q])  BY <1>2, <2>2, TookElse
    <3>2. Taking(q) \/ \E r \in Procs : Took(r)  BY <3>1 DEF DefaultsKept
    <3>3. Taking(q) => Taking(q)'  BY <2>2, TookElse
    <3>4. ASSUME NEW r \in Procs, Took(r) PROVE \E s \in Procs : Took(s)'
      BY <1>2, <2>2, <3>4, TookElse
    <3>5. QED  BY <3>2, <3>3, <3>4
  <2>3. QED  BY <2>1, <2>2
<1>3. ASSUME NEW q \in Procs, (Asking(q) /\ Writing(q) /\ then[q] = "idle")'
      PROVE  Defaults(memory'[q]) # {}
  BY <1>3, TookElse DEF DefaultsKept
<1>4. QED  BY <1>1, <1>2, <1>3 DEF DefaultsKept, Bare, Defaults

LEMMA DefaultsKeptStep ==
    ASSUME Shape, DefaultsKept, NEW p \in Procs, Step(p) PROVE DefaultsKept'
<1> SUFFICES ASSUME mishaps' \cap {"declined", "deleted", "stale"} = {} PROVE DefaultsKept'
  BY DEF DefaultsKept
<1> DEFINE Clear  == mishaps \cap {"declined", "deleted", "stale"} = {}
           Others == \A q \in Procs \ behind' : q # p => ~Bare(memory'[q])
<1>a. mishaps \subseteq mishaps' => Clear  OBVIOUS
<1>b. p \in Procs /\ target[p] \in Names \cup {NoName} /\ memory[p] \in Profiles
      /\ (Away(p) => target[p] = NoName /\ memory[p] = Nothing)
      /\ (Bound(p, "act") => target[p] = NoName)
      /\ (Bound(p, "prompt") => cmd[p].kind = "update" /\ target[p] \in Names
                                /\ Exist(target[p], memory[p]))
  BY DEF Shape, TypeOK, Places, Place
<1>1. CASE \E c \in Commands : Start(p, c)
  <2>1. Clear /\ UNCHANGED <<file, memory, target, behind>> /\ pc[p] = "idle" /\ pc'[p] = "load"
    BY <1>1, <1>a DEF Start, Shape, TypeOK
  <2>2. ~Took(p) /\ ~Took(p)' /\ ~Taking(p)' /\ ~Writing(p)'  BY <2>1 DEF Took, Taking, Writing
  <2>3. Profiled' = Profiled  BY <2>1 DEF Profiled
  <2>4. ~Bare(memory'[p])  BY <1>b, <2>1, BareFacts DEF Away
  <2>5. QED  BY <2>1, <2>2, <2>3, <2>4, DefaultsKeptBy
<1>2. CASE Reads(p)
  <2>1. /\ Clear /\ pc[p] = "load" /\ pc'[p] \in {"act", "truncate"}
        /\ pc'[p] = "truncate" => then'[p] = "act"
        /\ target'[p] = NoName /\ behind \subseteq behind' /\ UNCHANGED file
    BY <1>2, <1>a, <1>b, ReadFacts DEF Shape, TypeOK, Away
  <2>2. ~Took(p) /\ ~Writing(p) /\ ~Took(p)' /\ ~Taking(p)' /\ ~Asking(p)'
    BY <2>1 DEF Took, Taking, Writing, Asking
  <2>3. Profiled' = Profiled  BY <2>1 DEF Profiled
  <2>4. p \notin behind' /\ Bare(memory'[p]) => \E r \in Procs \ {p} : Took(r)
    <3>1. SUFFICES ASSUME p \notin behind', Bare(memory'[p]) PROVE \E r \in Procs \ {p} : Took(r)
      OBVIOUS
    <3>2. file.format \in {"absent", "current", "outdated"}
      BY <1>2, <3>1 DEF Reads, Read, Renew, Shape, TypeOK, File
    <3>3. memory'[p] = MigrateLegacy(file.profiles, file.user) \/ memory'[p] = file.profiles
      BY <1>2, <3>1, ReadFacts DEF Shape, TypeOK
    <3>4. file.user => Defaults(MigrateLegacy(file.profiles, file.user)) # {}
      BY <1>2, ReadFacts, MigrateFacts DEF Defaults
    <3>5. ~file.user => MigrateLegacy(file.profiles, file.user) = file.profiles
      BY <1>2, ReadFacts, MigrateFacts
    <3>6. Bare(file.profiles)  BY <1>2, <3>1, <3>3, <3>4, <3>5, ReadFacts DEF Bare
    <3>7. Profiled  BY <3>2, <3>6, BareFacts DEF Shape, FileSaved, Profiled
    <3>8. QED  BY <2>1, <2>2, <3>6, <3>7 DEF DefaultsKept
  <2>5. QED  BY <2>1, <2>2, <2>3, <2>4, DefaultsKeptBy
<1>3. CASE Truncate(p)
  <2>1. /\ Clear /\ pc[p] = "truncate" /\ pc'[p] = "encode"
        /\ UNCHANGED <<memory, cmd, target, then, behind>> /\ file'.format = "empty"
    BY <1>3, <1>a DEF Truncate, history, Shape, TypeOK
  <2>2. /\ Took(p)' = Took(p) /\ Taking(p)' = Taking(p)
        /\ (Asking(p) /\ Writing(p) /\ then[p] = "idle")' = (Asking(p) /\ Writing(p) /\ then[p] = "idle")
    BY <2>1 DEF Took, Taking, Writing, Asking, Bare, Defaults
  <2>3. ~Profiled'  BY <2>1 DEF Profiled
  <2>4. p \notin behind' /\ Bare(memory'[p]) =>
            \/ Taking(p)' \/ Took(p)' \/ \E r \in Procs \ {p} : Took(r)
    BY <2>1, <2>2 DEF DefaultsKept
  <2>5. (Asking(p) /\ Writing(p) /\ then[p] = "idle")' => Defaults(memory'[p]) # {}
    BY <2>1, <2>2 DEF DefaultsKept
  <2>6. QED  BY <2>1, <2>2, <2>3, <2>4, <2>5, DefaultsKeptBy
<1>4. CASE Encode(p)
  <2>1. Clear /\ p \notin behind  BY <1>4, <1>a, EncodeFacts
  <2>2. pc[p] = "encode" /\ pc'[p] = then[p] /\ ~Writing(p)'
    BY <1>4, EncodeFacts DEF Shape, TypeOK, Writing
  <2>3. Others  BY <1>4, EncodeFacts, BareFacts DEF Shape, Places, Place
  <2>4. Took(p) => ~Bare(file'.profiles)
    BY <1>4, <2>1, <2>2, EncodeFacts, BareFacts DEF Took, DefaultsKept, Bare
  <2>5. Bare(memory[p]) => Took(p)' \/ \E r \in Procs \ {p} : Took(r)
    <3>1. CASE Taking(p)
      BY <1>4, <2>2, <3>1, EncodeFacts DEF Taking, Took, Asking, Bare
    <3>2. CASE Took(p)
      BY <2>1, <2>2, <3>2 DEF Took, DefaultsKept, Bare
    <3>3. QED  BY <2>1, <3>1, <3>2 DEF DefaultsKept
  <2>6. Profiled' /\ Bare(file'.profiles) => Took(p)' \/ \E r \in Procs \ {p} : Took(r)
    BY <1>4, <2>5, EncodeFacts, BareFacts
  <2>7. Bare(memory'[p]) => Took(p)' \/ \E r \in Procs \ {p} : Took(r)
    BY <1>4, <2>5, EncodeFacts, BareFacts
  <2>8. QED  BY <2>1, <2>2, <2>3, <2>4, <2>6, <2>7, DefaultsKeptBy
<1>5. CASE Go(p)
  <2>1. /\ Clear /\ pc[p] \in {"act", "refresh", "login"}
        /\ pc'[p] \in {"refresh", "validate", "login", "waiting"}
        /\ UNCHANGED <<file, memory, behind>>
    BY <1>5, <1>a DEF Go, Goes, history, Shape, TypeOK
  <2>2. ~Took(p) /\ ~Took(p)' /\ ~Taking(p) /\ ~Writing(p)'  BY <2>1 DEF Took, Taking, Writing
  <2>3. Profiled' = Profiled  BY <2>1 DEF Profiled
  <2>4. p \notin behind' /\ Bare(memory'[p]) => \E r \in Procs \ {p} : Took(r)
    BY <2>1, <2>2 DEF DefaultsKept
  <2>5. QED  BY <2>1, <2>2, <2>3, <2>4, DefaultsKeptBy
<1>6. CASE Edit(p)
  <2>1. PICK ps \in Profiles, n \in Names \cup {NoName}, next \in {"idle", "prompt", "again"} :
          /\ pc[p] \in {"act", "again", "prompt", "validate", "waiting"}
          /\ pc[p] = "prompt" => next = "idle"
          /\ target[p] \in {NoName, n}
          /\ Save(p, ps, next)
          /\ target' = [target EXCEPT ![p] = n]
          /\ mishaps \subseteq mishaps'
          /\ UNCHANGED <<file, cmd, behind>>
          /\ Edited(p, ps, n, next)
    BY <1>6 DEF Edit
  <2>2. /\ Clear /\ pc'[p] = "truncate" /\ then'[p] = next /\ memory'[p] = ps /\ target'[p] = n
        /\ cmd'[p] = cmd[p] /\ ~Writing(p)
    BY <1>a, <2>1 DEF Save, Shape, TypeOK, Writing
  <2>3. Took(p) => Took(p)'
    BY <1>b, <2>1, <2>2 DEF Took, Asking, Writing
  <2>4. Profiled' = Profiled  BY <2>1 DEF Profiled
  <2>5. next = "prompt" => Taking(p)'
    BY <2>1, <2>2, ConfigurationAssumption DEF Edited, Taking, Asking, Writing
  <2>6. p \notin behind' /\ Bare(memory'[p]) =>
            \/ Taking(p)' \/ Took(p)' \/ \E r \in Procs \ {p} : Took(r)
    <3>1. Bare(ps) => Bare(memory[p]) \/ next = "prompt"
      BY <2>1 DEF Edited
    <3>2. ~Taking(p)  BY <2>2 DEF Taking
    <3>3. QED  BY <2>1, <2>2, <2>3, <2>5, <3>1, <3>2 DEF DefaultsKept
  <2>7. (Asking(p) /\ Writing(p) /\ then[p] = "idle")' => Defaults(memory'[p]) # {}
    BY <2>1, <2>2 DEF Edited, Asking
  <2>8. QED  BY <2>1, <2>2, <2>3, <2>4, <2>6, <2>7, DefaultsKeptBy
<1>7. CASE Replace(p)
  <2>1. /\ Clear /\ pc[p] = "refresh" /\ pc'[p] = "validate" /\ behind' = behind
        /\ memory'[p] = memory[p] /\ file'.format = file.format
        /\ Bare(file'.profiles) = Bare(file.profiles)
    BY <1>7, <1>a, ReplaceFacts, BareFacts DEF Shape, TypeOK
  <2>2. ~Took(p) /\ ~Took(p)' /\ ~Taking(p) /\ ~Writing(p)'  BY <2>1 DEF Took, Taking, Writing
  <2>3. Profiled' = Profiled  BY <2>1 DEF Profiled
  <2>4. p \notin behind' /\ Bare(memory'[p]) => \E r \in Procs \ {p} : Took(r)
    BY <2>1, <2>2 DEF DefaultsKept
  <2>5. QED  BY <2>1, <2>2, <2>3, <2>4, DefaultsKeptBy
<1>8. CASE Leave(p)
  <2>1. /\ Clear /\ pc'[p] = "idle" /\ behind' = behind \ {p} /\ memory'[p] = Nothing
        /\ UNCHANGED file
    BY <1>8, <1>a, LeaveFacts DEF Shape, TypeOK
  <2>2. ~Took(p)
    <3>1. ~(Asking(p) /\ (Writing(p) \/ (pc[p] = "prompt" /\ Defaults(memory[p]) = {})))
      BY <1>8, LeaveFacts
    <3>2. QED  BY <3>1 DEF Took, Bare
  <2>3. ~Took(p)' /\ ~Writing(p)' /\ Profiled' = Profiled  BY <2>1 DEF Took, Writing, Profiled
  <2>4. ~Bare(memory'[p])  BY <2>1, BareFacts
  <2>5. QED  BY <2>1, <2>2, <2>3, <2>4, DefaultsKeptBy
<1>9. QED  BY <1>1, <1>2, <1>3, <1>4, <1>5, <1>6, <1>7, <1>8 DEF Step

\* A file with profiles names a default, unless the user has given that up or
\* an outdated copy was written: an update takes the default away only to ask
\* for it, and no other command leaves a file without one (Update,
\* src/pkg/commands/profile/update.go; SetDefault, src/pkg/profile/profile.go).
THEOREM DefaultKeptAlways == Spec => []DefaultKept
<1>1. Init => DefaultsKept
  <2> SUFFICES ASSUME Init PROVE DefaultsKept  OBVIOUS
  <2>1. ~Bare(file.profiles)  BY FilesAssumption DEF Init, Bare
  <2>2. \A p \in Procs : ~Bare(memory[p]) /\ ~Writing(p)  BY BareFacts DEF Init, Writing
  <2>3. QED  BY <2>1, <2>2 DEF DefaultsKept
<1>2. DefaultsKept /\ Shape /\ [Next]_vars => DefaultsKept'
  <2>1. DefaultsKept /\ Shape /\ Next => DefaultsKept'  BY Steps, DefaultsKeptStep
  <2>2. DefaultsKept /\ UNCHANGED vars => DefaultsKept'
    BY DEF vars, history, DefaultsKept, Profiled, Bare, Defaults, Took, Taking, Asking, Writing
  <2>3. QED  BY <2>1, <2>2
<1>3. DefaultsKept => DefaultKept  BY DEF DefaultsKept, Bare, Took, DefaultKept
<1>4. QED  BY ShapeAlways, <1>1, <1>2, <1>3, PTL DEF Spec

=============================================================================

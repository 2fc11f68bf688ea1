---------------------------- MODULE RuntimeConfig ----------------------------
(***************************************************************************)
(* The runtime settings: RuntimeConfigManager (services/runtime_config.py), *)
(* the panel's requests that read and save them (web/settings_api.py) and   *)
(* the refresh of the components after a save (__main__.py).                *)
(*                                                                         *)
(* The stored document has a revision and, encrypted beside it, the secrets; *)
(* a save is a compare-and-set on the revision.  One value stands for all   *)
(* that is not secret and one for the secrets.  A process reads the         *)
(* database only when it starts; in a rolling deployment two of them save.  *)
(***************************************************************************)
EXTENDS Naturals

CONSTANTS
  Servers, Pages,
  Docs,                \* documents; Legacy is the one imported from the old file
  Old,                 \* a document of an earlier schema, stored by an earlier release
  Legacy,              \* also what Old is normalised to
  Keys, None,          \* secrets
  MaxSaves, MaxConfigFaults, MaxServerStarts  \* bounds

ConfigAssumption ==
  /\ Legacy \in Docs /\ Old \notin Docs
  /\ None \notin Docs \cup {Old} \cup Keys \cup Pages \cup Servers
  /\ {MaxSaves, MaxConfigFaults, MaxServerStarts} \subseteq Nat

VARIABLES
  stored,    \* runtime_config and runtime_config_secrets: [rev, doc, key], rev 0 without a row
  server,    \* process -> "down", "boot" (the row is read) or "up"
  mem,       \* process -> _revision and _config
  settings,  \* process -> what the live Settings hold
  parts,     \* process -> what the model client, the memory and the log were configured by
  saver,     \* process -> the page whose save holds _lock, or None
  plan,      \* process -> the document and secrets that save is to write
  form,      \* page -> [at, rev, doc, to, set, act]: what it shows and what it has sent
  asked,     \* history: the secret as the saves asked for it
  strayed,   \* history: a start overwrote a save, or a process behind the table saved
  failed,    \* history: processes whose components missed the last refresh
  configFaults, serverStarts

configVars == <<stored, server, mem, settings, parts, saver, plan, form, asked, strayed, failed,
                configFaults, serverStarts>>

Revs == 0..MaxSaves + 1
Contents == [doc : Docs \cup {None}, key : Keys \cup {None}]
Nothing == [doc |-> None, key |-> None]
Unread == [rev |-> 0, doc |-> None, key |-> None]
Content(r) == [doc |-> r.doc, key |-> r.key]

\* The record of a revision and its rows of secrets (_load_secret_map, _write_secret_map)
Row(n, c) == [rev |-> n, doc |-> c.doc, key |-> c.key]

TypeOK ==
  /\ stored \in [rev : Revs, doc : Docs \cup {Old, None}, key : Keys \cup {None}]
  /\ server \in [Servers -> {"down", "boot", "up"}]
  /\ mem \in [Servers -> [rev : Revs, doc : Docs \cup {None}, key : Keys \cup {None}]]
  /\ settings \in [Servers -> Contents] /\ parts \in [Servers -> Contents]
  /\ plan \in [Servers -> Contents] /\ saver \in [Servers -> Pages \cup {None}]
  /\ form \in [Pages -> [at : {"view", "sent"}, rev : Revs, doc : Docs \cup {None},
                         to : Servers \cup {None}, set : Docs \cup {None},
                         act : {"keep", "clear"} \cup Keys]]
  /\ asked \in Keys \cup {None} /\ strayed \in BOOLEAN /\ failed \subseteq Servers
  /\ configFaults \in 0..MaxConfigFaults /\ serverStarts \in 0..MaxServerStarts

Blank == [at |-> "view", rev |-> 0, doc |-> None, to |-> None, set |-> None, act |-> "keep"]

Init ==
  /\ \/ stored = Unread /\ asked = None
     \/ \E k \in Keys \cup {None} : stored = [rev |-> 1, doc |-> Old, key |-> k] /\ asked = k
  /\ server = [p \in Servers |-> "down"] /\ mem = [p \in Servers |-> Unread]
  /\ settings = [p \in Servers |-> Nothing] /\ parts = [p \in Servers |-> Nothing]
  /\ saver = [p \in Servers |-> None] /\ plan = [p \in Servers |-> Nothing]
  /\ form = [a \in Pages |-> Blank]
  /\ strayed = FALSE /\ failed = {} /\ configFaults = 0 /\ serverStarts = 0

Fine  == UNCHANGED configFaults
Fails == configFaults < MaxConfigFaults /\ configFaults' = configFaults + 1
Back(a) == form' = [form EXCEPT ![a].at = "view", ![a].to = None]

-----------------------------------------------------------------------------
(* Start and stop *)

\* _normalize_deprecated_runtime_payload
Normal(d) == IF d = Old THEN Legacy ELSE d

\* build_legacy_runtime_config: the old file and environment, with what secrets they hold
Imports == {[doc |-> Legacy, key |-> k] : k \in Keys \cup {None}}

\* initialize reads the row before it writes anything; without one it imports the legacy file.
BootRead(p) ==
  /\ server[p] = "down" /\ serverStarts < MaxServerStarts /\ serverStarts' = serverStarts + 1
  /\ server' = [server EXCEPT ![p] = "boot"]
  /\ IF stored.rev = 0
       THEN /\ \E import \in Imports : plan' = [plan EXCEPT ![p] = import]
            /\ UNCHANGED mem
       ELSE LET doc == Normal(stored.doc) IN
            /\ plan' = [plan EXCEPT ![p].doc = IF doc # stored.doc THEN doc ELSE None]
            /\ mem' = [mem EXCEPT ![p] = [rev |-> stored.rev, doc |-> doc, key |-> None]]
  /\ UNCHANGED <<stored, settings, parts, saver, form, asked, strayed, failed, configFaults>>

\* The legacy file is imported, and fails on the key when another process was first; a
\* document of an earlier schema is replaced under its revision; then the secrets are read.
BootWrite(p) ==
  LET imports == mem[p].rev = 0
      now == [stored EXCEPT !.doc = IF plan[p].doc = None THEN @ ELSE plan[p].doc] IN
  /\ server[p] = "boot" /\ Fine
  /\ IF imports /\ stored.rev # 0
       THEN /\ server' = [server EXCEPT ![p] = "down"] /\ mem' = [mem EXCEPT ![p] = Unread]
            /\ UNCHANGED <<stored, settings, parts, asked, strayed>>
       ELSE /\ stored' = (IF imports THEN Row(1, plan[p]) ELSE now)
            /\ asked' = (IF imports THEN plan[p].key ELSE asked)
            /\ strayed' = (strayed \/ (~imports /\ plan[p].doc # None /\ stored.rev # mem[p].rev))
            /\ server' = [server EXCEPT ![p] = "up"]
            /\ mem' = [mem EXCEPT ![p] = IF imports THEN stored' ELSE [@ EXCEPT !.key = stored.key]]
            /\ settings' = [settings EXCEPT ![p] = Content(mem'[p])]
            /\ parts' = [parts EXCEPT ![p] = Content(mem'[p])]
  /\ plan' = [plan EXCEPT ![p] = Nothing] /\ failed' = failed \ {p}
  /\ UNCHANGED <<saver, form, serverStarts>>

\* The process ends: what it was saving is written or not, and no page hears of it.
Stop(p) ==
  /\ server[p] # "down" /\ Fails /\ server' = [server EXCEPT ![p] = "down"]
  /\ mem' = [mem EXCEPT ![p] = Unread] /\ settings' = [settings EXCEPT ![p] = Nothing]
  /\ parts' = [parts EXCEPT ![p] = Nothing] /\ plan' = [plan EXCEPT ![p] = Nothing]
  /\ saver' = [saver EXCEPT ![p] = None] /\ failed' = failed \ {p}
  /\ form' = [a \in Pages |-> IF form[a].to # p THEN form[a]
                             ELSE [form[a] EXCEPT !.at = "view", !.to = None]]
  /\ UNCHANGED <<stored, asked, strayed, serverStarts>>

-----------------------------------------------------------------------------
(* The panel *)

\* get_settings
Show(a, p) ==
  /\ form[a].at = "view" /\ server[p] = "up"
  /\ form' = [form EXCEPT ![a].rev = mem[p].rev, ![a].doc = mem[p].doc]
  /\ UNCHANGED <<stored, server, mem, settings, parts, saver, plan, asked, strayed, failed,
                 configFaults, serverStarts>>

\* put_settings: any document, with the revision that the page shows
Send(a, p) ==
  /\ form[a].at = "view" /\ form[a].rev # 0 /\ server[p] = "up"
  /\ \E d \in Docs, k \in {"keep", "clear"} \cup Keys :
       form' = [form EXCEPT ![a].at = "sent", ![a].to = p, ![a].set = d, ![a].act = k]
  /\ UNCHANGED <<stored, server, mem, settings, parts, saver, plan, asked, strayed, failed,
                 configFaults, serverStarts>>

\* What an action makes of a secret
Changed(k, act) == IF act = "keep" THEN k ELSE IF act = "clear" THEN None ELSE act

\* A bug for the mutation runs: the document is tried on the live settings.
EagerPrepare(p, a) ==
  /\ saver[p] = None /\ form[a].at = "sent" /\ form[a].to = p
  /\ \/ /\ Fine /\ saver' = [saver EXCEPT ![p] = a] /\ UNCHANGED form
        /\ plan' = [plan EXCEPT ![p] = [doc |-> form[a].set,
                                       key |-> Changed(mem[p].key, form[a].act)]]
        /\ settings' = [settings EXCEPT ![p] = plan'[p]]
     \/ Fails /\ Back(a) /\ UNCHANGED <<saver, plan, settings>>
  /\ UNCHANGED <<stored, server, mem, parts, asked, strayed, failed, serverStarts>>

\* save, under its lock: the document is checked on a copy of the settings, and the secrets
\* are those in memory with the page's changes.
Prepare(p, a) ==
  /\ saver[p] = None /\ form[a].at = "sent" /\ form[a].to = p
  /\ \/ /\ Fine /\ saver' = [saver EXCEPT ![p] = a] /\ UNCHANGED form
        /\ plan' = [plan EXCEPT ![p] = [doc |-> form[a].set,
                                       key |-> Changed(mem[p].key, form[a].act)]]
     \/ Fails /\ Back(a) /\ UNCHANGED <<saver, plan>>
  /\ UNCHANGED <<stored, server, mem, settings, parts, asked, strayed, failed, serverStarts>>

\* A bug for the mutation runs: the revision in the table is not compared.
WriteAnyway(p) ==
  LET a == saver[p] IN
  /\ a # None /\ plan[p] # Nothing /\ stored.rev <= MaxSaves /\ Fine
  /\ stored' = Row(form[a].rev + 1, plan[p])
  /\ strayed' = (strayed \/ mem[p].rev # stored.rev)
  /\ asked' = Changed(asked, form[a].act)
  /\ mem' = [mem EXCEPT ![p] = stored'] /\ settings' = [settings EXCEPT ![p] = plan[p]]
  /\ plan' = [plan EXCEPT ![p] = Nothing] /\ UNCHANGED <<saver, form>>
  /\ UNCHANGED <<server, parts, failed, serverStarts>>

\* The compare-and-set with the secrets in one transaction and, once it has committed, the
\* live settings; a conflict or a failed write changes nothing.
Write(p) ==
  LET a == saver[p] IN
  /\ a # None /\ plan[p] # Nothing
  /\ \/ /\ Fine /\ stored.rev = form[a].rev /\ stored.rev <= MaxSaves
        /\ stored' = Row(form[a].rev + 1, plan[p])
        /\ strayed' = (strayed \/ mem[p].rev # stored.rev)
        /\ asked' = Changed(asked, form[a].act)
        /\ mem' = [mem EXCEPT ![p] = stored'] /\ settings' = [settings EXCEPT ![p] = plan[p]]
        /\ plan' = [plan EXCEPT ![p] = Nothing] /\ UNCHANGED <<saver, form>>
     \/ /\ IF stored.rev # form[a].rev THEN Fine ELSE Fails
        /\ saver' = [saver EXCEPT ![p] = None] /\ plan' = [plan EXCEPT ![p] = Nothing] /\ Back(a)
        /\ UNCHANGED <<stored, strayed, asked, mem, settings>>
  /\ UNCHANGED <<server, parts, failed, serverStarts>>

\* apply_runtime_update refreshes the components under the lock, and a failure of it is
\* only logged; the page is shown the result, if the answer reaches it.
Refresh(p) ==
  LET a == saver[p] IN
  /\ a # None /\ plan[p] = Nothing /\ saver' = [saver EXCEPT ![p] = None]
  /\ \/ Fine /\ parts' = [parts EXCEPT ![p] = Content(mem[p])] /\ failed' = failed \ {p}
     \/ Fails /\ UNCHANGED parts /\ failed' = failed \cup {p}
  /\ \/ form' = [form EXCEPT ![a] = [Blank EXCEPT !.rev = mem[p].rev, !.doc = mem[p].doc]]
     \/ Back(a)
  /\ UNCHANGED <<stored, server, mem, settings, plan, asked, strayed, serverStarts>>

Next == \E p \in Servers :
  \/ BootRead(p) \/ BootWrite(p) \/ Stop(p) \/ Write(p) \/ Refresh(p)
  \/ \E a \in Pages : Show(a, p) \/ Send(a, p) \/ Prepare(p, a)

Spec == Init /\ [][Next]_configVars

-----------------------------------------------------------------------------
(* Properties *)

\* A revision names one document: whoever holds the stored revision, a process or a page,
\* holds what is stored, so that a save that passes the compare-and-set has seen what it
\* replaces, and a secret is what the saves asked for.  Excepted are a start that
\* replaces an earlier schema after another process saved, and a save through a process
\* that is behind the table (runtime_config.py:1368-1416, 1426-1516).
RevisionTells ==
  ~strayed =>
    /\ \A p \in Servers :
         server[p] = "up" /\ mem[p].rev = stored.rev => Content(mem[p]) = Content(stored)
    /\ \A a \in Pages :
         form[a].rev # 0 /\ form[a].rev = stored.rev => stored.doc \in {form[a].doc, Old}
    /\ stored.key = asked

\* What runs is what was saved: a process's settings are those of its revision at every
\* moment, also through a conflict, and its components' outside a save, except that a failed
\* refresh waits for the next (save, _notify_applied).
SettingsFollow ==
  \A p \in Servers : server[p] = "up" =>
    /\ settings[p] = Content(mem[p])
    /\ saver[p] = None /\ p \notin failed => parts[p] = settings[p]
=============================================================================

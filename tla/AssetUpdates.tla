---------------------------- MODULE AssetUpdates ----------------------------
(***************************************************************************)
(* The version of an application, the latest release of it on GitHub, the  *)
(* flag that says whether there is an update, the notification of it and   *)
(* what the MQTT broker retains (services/asset_updates.py,                *)
(* github_releases.py, the asset update loop of plugins/manager.py, the    *)
(* metadata form of api/pages.py and export_asset of plugins/mqtt).        *)
(*                                                                         *)
(* Refreshes run beside each other and beside edits: each reads the row,   *)
(* asks GitHub and writes the columns that are different from what it has  *)
(* read.  An edit holds the write lock from its first statement to its     *)
(* commit, the request to GitHub included, so that it is one step here.    *)
(* Versions are numbers, 0 is none.                                        *)
(***************************************************************************)
EXTENDS Integers, FiniteSets

CONSTANTS
    Refreshers,    \* the loop and the button, each with a thread
    Loop,          \* the one that comes back at its interval
    MaxVersion,    \* bound: releases, and installed versions
    MaxFaults      \* bound: failed requests, commits and publications

UpdatesAssumption ==
    /\ Loop \in Refreshers /\ MaxVersion \in Nat \ {0} /\ MaxFaults \in Nat

VARIABLES
    asset,      \* the row: version, latest, flag, github, mqtt
    release,    \* the latest release on GitHub
    external,   \* apps_master is "external"
    job,        \* what each thread is doing: refreshers, the form, an import
    retained,   \* what the broker retains
    told,       \* the releases that were notified
    edits,      \* changes by hand or by an import so far
    faults

AUvars == <<asset, release, external, job, retained, told, edits, faults>>

Form == "form"
Import == "import"
Threads == Refreshers \union {Form, Import}
Versions == 0..MaxVersion
Idle == [at |-> "idle"]

TypeOK ==
    /\ asset \in [version : Versions, latest : Versions, flag : BOOLEAN,
                  github : BOOLEAN, mqtt : BOOLEAN]
    /\ release \in 1..MaxVersion /\ external \in BOOLEAN
    /\ \A t \in Threads : job[t].at \in {"idle", "ask", "commit", "export", "publish"}
    /\ retained \in [version : Versions, latest : Versions]
    /\ told \subseteq Versions
    /\ edits \in Nat /\ faults \in 0..MaxFaults

(* An application just imported, of whose latest release nothing is known. *)
Init ==
    /\ asset \in [version : {1}, latest : {0}, flag : {FALSE}, github : BOOLEAN, mqtt : {FALSE}]
    /\ release = 1 /\ external \in BOOLEAN
    /\ job = [t \in Threads |-> Idle]
    /\ retained = [version |-> 0, latest |-> 0]
    /\ told = {} /\ edits = 0 /\ faults = 0

Fault == faults < MaxFaults /\ faults' = faults + 1
Goto(t, j) == job' = [job EXCEPT ![t] = j]

(* GitHub has a new release.  The version numbers never go back. *)
NewRelease ==
    /\ release < MaxVersion /\ release' = release + 1
    /\ UNCHANGED <<asset, external, job, retained, told, edits, faults>>

(***************************************************************************)
(* refresh_asset_update                                                    *)
(***************************************************************************)
AppliedIfNew(a, latest) == IF a.latest = latest THEN a ELSE
    [a EXCEPT !.latest = latest,
              !.flag = latest # 0 /\ a.version # 0 /\ latest # a.version]

(* _apply_update_state *)
Applied(a, latest) ==
    [a EXCEPT !.latest = latest,
              !.flag = latest # 0 /\ a.version # 0 /\ latest # a.version]

(* What the flag says is recomputed from what is known before GitHub is    *)
(* asked; answer 0 is a request that failed or has no release.             *)
Refreshed(a, answer) ==
    LET known == IF a.latest # 0 THEN Applied(a, a.latest) ELSE a
    IN  CASE ~a.github -> [a EXCEPT !.latest = 0, !.flag = FALSE]
          [] a.github /\ answer = 0 -> known
          [] OTHER -> Applied(known, answer)

(* A notification is for an update that was not there, or for another      *)
(* release than the one known.                                             *)
Announces(a, answer) ==
    /\ a.github /\ answer # 0
    /\ Refreshed(a, answer).flag
    /\ ~a.flag \/ a.latest # answer

Told(a, answer) ==
    IF Announces(a, answer) THEN told \union {answer} ELSE told

Start(t) ==
    /\ job[t] = Idle
    /\ Goto(t, [at |-> "ask", seen |-> asset])
    /\ UNCHANGED <<asset, release, external, retained, told, edits, faults>>

Ask(t) ==
    /\ job[t].at = "ask"
    /\ \/ Goto(t, [at |-> "commit", seen |-> job[t].seen, answer |-> release]) /\ UNCHANGED faults
       \/ Goto(t, [at |-> "commit", seen |-> job[t].seen, answer |-> 0]) /\ Fault
    /\ UNCHANGED <<asset, release, external, retained, told, edits>>

(* The columns that changed are written.  The commit is of all assets: it  *)
(* fails when one of the others has been cleaned up meanwhile.             *)
Merged(seen, new) ==
    [c \in DOMAIN asset |-> IF new[c] # seen[c] THEN new[c] ELSE asset[c]]

Commit(t) ==
    /\ job[t].at = "commit"
    /\ LET seen == job[t].seen
       IN  \/ /\ asset' = Merged(seen, Refreshed(seen, job[t].answer))
              /\ told' = Told(seen, job[t].answer)
              /\ Goto(t, [at |-> "export"])
              /\ UNCHANGED faults
           \/ /\ Goto(t, Idle) /\ Fault
              /\ UNCHANGED <<asset, told>>
    /\ UNCHANGED <<release, external, retained, edits>>

(***************************************************************************)
(* The metadata form, the import, the toggle                               *)
(***************************************************************************)
Complete(a) == a.version # 0 /\ a.latest # 0 /\ a.github

Edit(v, github, answer) ==
    LET edited == [asset EXCEPT !.version = v, !.github = github]
        new == Refreshed(edited, answer)
    IN  /\ ~external /\ job[Form] = Idle /\ edits < MaxVersion
        /\ answer \in {0, release}
        /\ IF github /\ answer = 0 THEN Fault ELSE UNCHANGED faults
        /\ asset' = [new EXCEPT !.mqtt = @ /\ Complete(new)]
        /\ told' = Told(edited, answer)
        /\ edits' = edits + 1
        /\ Goto(Form, IF new.mqtt /\ Complete(new) THEN [at |-> "export"] ELSE Idle)
        /\ UNCHANGED <<release, external, retained>>

(* import_json_assets: the version alone, and every asset is exported. *)
ExternalVersion(v) ==
    /\ external /\ job[Import] = Idle /\ edits < MaxVersion
    /\ asset' = [asset EXCEPT !.version = v]
    /\ edits' = edits + 1
    /\ Goto(Import, [at |-> "export"])
    /\ UNCHANGED <<release, external, retained, told, faults>>

(* toggle_asset_mqtt: nothing is exported. *)
Toggle(on) ==
    /\ edits < MaxVersion /\ edits' = edits + 1
    /\ asset' = [asset EXCEPT !.mqtt = on /\ Complete(asset)]
    /\ UNCHANGED <<release, external, job, retained, told, faults>>

(***************************************************************************)
(* export_asset_update: the row is read, then published                    *)
(***************************************************************************)
Export(t) ==
    /\ job[t].at = "export"
    /\ Goto(t, IF asset.mqtt /\ Complete(asset)
               THEN [at |-> "publish", version |-> asset.version, latest |-> asset.latest]
               ELSE Idle)
    /\ UNCHANGED <<asset, release, external, retained, told, edits, faults>>

Publish(t) ==
    /\ job[t].at = "publish"
    /\ Goto(t, Idle)
    /\ retained' = [version |-> job[t].version, latest |-> job[t].latest]
    /\ UNCHANGED <<asset, release, external, told, edits, faults>>

(* What fails is a diagnostic, and not tried again. *)
PublishFails(t) ==
    /\ job[t].at = "publish" /\ Fault
    /\ Goto(t, Idle)
    /\ UNCHANGED <<asset, release, external, retained, told, edits>>

Going(t) == Ask(t) \/ Commit(t) \/ Export(t) \/ Publish(t) \/ PublishFails(t)

Next ==
    \/ NewRelease
    \/ \E t \in Refreshers : Start(t)
    \/ \E t \in Threads : Going(t)
    \/ \E v \in Versions, github \in BOOLEAN, answer \in Versions : Edit(v, github, answer)
    \/ \E v \in Versions : ExternalVersion(v)
    \/ \E on \in BOOLEAN : Toggle(on)

(* The loop comes back and gets on.  Nobody has to press the button, and   *)
(* whoever else hangs leaves nothing that the loop does not put right.     *)
Fairness == WF_AUvars(Start(Loop) \/ Going(Loop))

Spec == Init /\ [][Next]_AUvars /\ Fairness

-----------------------------------------------------------------------------
(* Whatever refreshes, edits and imports overlap, and whatever fails: in   *)
(* the end the flag and the latest release are those of the version that   *)
(* is installed, and the broker retains both.                              *)
Right ==
    /\ IF asset.github
       THEN asset.latest = release /\ (asset.flag <=> asset.version \notin {0, release})
       ELSE asset.latest = 0 /\ ~asset.flag
    /\ asset.mqtt /\ Complete(asset) =>
         retained = [version |-> asset.version, latest |-> asset.latest]
FlagSettles == <>[]Right

(* "A repeated check of the same available version does not create another *)
(* notification" (website/guide/configuration/notifications.md:52), which  *)
(* two refreshes at a time do.                                             *)
NotifiedOnce ==
    [][\A t \in Refreshers :
         /\ job[t].at = "commit" /\ job'[t].at = "export"
         /\ Announces(job[t].seen, job[t].answer)
         => ~(asset.flag /\ asset.latest = job[t].answer)]_AUvars
=============================================================================

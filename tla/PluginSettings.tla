--------------------------- MODULE PluginSettings ---------------------------
(***************************************************************************)
(* The settings form of a plugin: which of the posted values may be        *)
(* written, given that a setting may be hidden by the values of others     *)
(* (plugins/manager.py, writable_settings; plugins/base.py,                *)
(* PluginSetting; api/pages.py, save_plugin_settings), the deletion of a   *)
(* secret, and other forms that are saved between what a request reads and *)
(* its commit, which waits for the write lock.                             *)
(*                                                                         *)
(* A setting is a number in the order of the declaration; 1 is "enabled".  *)
(***************************************************************************)
EXTENDS Integers, FiniteSets, Functions

CONSTANTS
    Count,         \* how many settings the plugin has
    Secrets,       \* those of type password
    MaxConditions  \* bound: conditions of a setting

SettingsAssumption ==
    /\ Count \in Nat \ {0} /\ Secrets \subseteq 2..Count /\ MaxConditions \in Nat

VARIABLES
    shown,   \* for a setting its own conditions: other settings and their values
    stored,  \* the values in the database
    request  \* what a request has read, and is going to write

PSvars == <<shown, stored, request>>

Keys == 1..Count
Empty == ""
ValuesOf(k) == IF k \in Secrets THEN {Empty, "true"} ELSE {"true", "false"}
NoPost == [at |-> "none"]

(* What a form may post: a value, or nothing for a setting. *)
Partial == UNION {[K -> {Empty, "true", "false"}] : K \in SUBSET Keys}
Posts == {f \in Partial : \A k \in DOMAIN f : f[k] \in ValuesOf(k)}

Conditions(k) ==
    {s \in SUBSET {<<c, v>> : c \in Keys \ {k}, v \in {"true", "false"}} :
       Cardinality(s) <= MaxConditions}

SettingsTypeOK ==
    /\ DOMAIN shown = Keys /\ \A k \in Keys : shown[k] \in Conditions(k)
    /\ DOMAIN stored = Keys /\ \A k \in Keys : stored[k] \in ValuesOf(k)
    /\ request = NoPost \/ request.write \in Posts

SettingsInit ==
    /\ shown \in {f \in [Keys -> UNION {Conditions(k) : k \in Keys}] :
                    \A k \in Keys : f[k] \in Conditions(k)}
    /\ stored \in {f \in [Keys -> {Empty, "true", "false"}] : \A k \in Keys : f[k] \in ValuesOf(k)}
    /\ request = NoPost

(* A setting without a condition of its own is shown when the plugin is    *)
(* enabled, the switch itself always.                                      *)
Effective(k) == IF shown[k] = {} /\ k # 1 THEN {<<1, "true">>} ELSE shown[k]

Met(k, state) == \A c \in Effective(k) : state[c[1]] = c[2]

Overlay(post, state) ==
    LET applied == {k \in DOMAIN post : Met(k, state)}
    IN  [k \in Keys |-> IF k \in applied THEN post[k] ELSE stored[k]]

(* The state the posted values settle in, after at most one pass for each  *)
(* setting and one more.                                                   *)
Passes == Count + 1
OncePassed(post) == Overlay(post, stored)
Settled(post) ==
    LET pass[n \in 0..Passes] == IF n = 0 THEN stored ELSE Overlay(post, pass[n - 1])
    IN  pass[Passes]

Writable(post) ==
    LET state == Settled(post)
    IN  Restrict(post, {k \in DOMAIN post : Met(k, state)})

(* An empty secret means that it stays. *)
Written(post) ==
    LET w == Writable(post)
    IN  Restrict(w, {k \in DOMAIN w : k \notin Secrets \/ w[k] # Empty})

Read(post) ==
    /\ request = NoPost
    /\ request' = [at |-> "read", write |-> Written(post), seen |-> stored]
    /\ UNCHANGED <<shown, stored>>

(* The rows whose value is another one than what was read are written. *)
Saved ==
    LET changed == {k \in DOMAIN request.write : request.write[k] # request.seen[k]}
    IN  [k \in Keys |-> IF k \in changed THEN request.write[k] ELSE stored[k]]

Commit ==
    /\ request # NoPost
    /\ stored' = Saved
    /\ request' = NoPost
    /\ UNCHANGED shown

(* Another form is saved meanwhile, of which one value counts. *)
OtherSave(k, v) ==
    /\ k \in Keys \ Secrets /\ Met(k, stored)
    /\ stored' = [stored EXCEPT ![k] = v]
    /\ UNCHANGED <<shown, request>>

(* clear_plugin_secret: a secret that is shown, and nothing else. *)
DeleteSecret(k) ==
    /\ k \in Secrets /\ Met(k, stored)
    /\ stored' = [stored EXCEPT ![k] = Empty]
    /\ UNCHANGED <<shown, request>>

SettingsNext ==
    \/ \E post \in Posts : Read(post)
    \/ Commit
    \/ \E k \in Keys, v \in {"true", "false"} : OtherSave(k, v)
    \/ \E k \in Keys : DeleteSecret(k)

SettingsSpec == SettingsInit /\ [][SettingsNext]_PSvars

-----------------------------------------------------------------------------
(* A definition makes sense if no setting hides itself, however            *)
(* indirectly, and none depends on what a secret is.                       *)
Sensible ==
    /\ \A k \in Keys : \A c \in Effective(k) : c[1] \notin Secrets
    /\ \E rank \in [Keys -> 0..(Count - 1)] :
         \A k \in Keys : \A c \in Effective(k) : rank[c[1]] < rank[k]

Result(r) == [k \in Keys |-> IF k \in DOMAIN r.write THEN r.write[k] ELSE r.seen[k]]

(* "a value that the resulting state hides stays unwritable regardless of  *)
(* the order it was posted in" (writable_settings): what is going to be    *)
(* written is shown in the state it makes of the one that was read.        *)
HiddenNeverWritten ==
    request # NoPost /\ Sensible => \A k \in DOMAIN request.write : Met(k, Result(request))

(* "a hand-crafted post cannot write a setting that is hidden in the       *)
(* resulting state" (pages.py:2312), of the state that another form has    *)
(* made meanwhile.                                                         *)
HiddenInTheEnd ==
    [][request # NoPost /\ request' = NoPost /\ Sensible =>
         \A k \in Keys : stored'[k] # stored[k] => Met(k, stored')]_PSvars
=============================================================================

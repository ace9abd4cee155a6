---------------------------- MODULE OutboundNames ----------------------------
(***************************************************************************)
(* The names of the outbounds, the configuration kept under each, and the  *)
(* three kinds of places that mention one: the front proxy of a node, the  *)
(* outbound a subscription is fetched through and the outbound of a rule.  *)
(* A rename is a row of transactions; the process may die between two.     *)
(***************************************************************************)
EXTENDS Naturals, Sequences, FiniteSets, Functions

CONSTANTS
  Custom,    \* names users may give
  Settings,  \* what an outbound is configured to do
  Rows,      \* own nodes, subscriptions and rules, each with one mention
  Own, Subscribed, Ruled  \* the three lists the rows are in

NamesAssumption ==
  /\ "proxy" \notin Custom
  /\ Rows = Own \union Subscribed \union Ruled

None == "none"
NoConfig == [name |-> None, set |-> None]

VARIABLES
  listed,    \* the bucket "outbounds" ("proxy" is there without being stored)
  config,    \* the bucket "outbound.<name>" of each name
  mention,   \* the outbound each row names
  job,       \* the request under way
  owed       \* history: what each outbound was last configured to do

vars == <<listed, config, mention, job, owed>>

Idle == [todo |-> <<>>, old |-> None, new |-> None, set |-> None]
Names == {"proxy"} \union Custom
Quiet == job = Idle
At(label) == job.todo # <<>> /\ Head(job.todo) = label
Done == job' = IF Len(job.todo) = 1 THEN Idle ELSE [job EXCEPT !.todo = Tail(@)]

Init ==
  /\ listed = {} /\ config = [n \in Names |-> NoConfig]
  /\ mention = [r \in Rows |-> "proxy"]
  /\ job = Idle
  /\ owed = {}

-----------------------------------------------------------------------------
(* The requests.                                                           *)
CreateOutbound(n, set) ==
  /\ Quiet /\ n \in Custom
  /\ job' = [Idle EXCEPT !.todo = <<"list", "put">>, !.new = n, !.set = set]
  /\ UNCHANGED <<listed, config, mention, owed>>

(* updateOutbound and connectOutbound store the whole record.              *)
UpdateOutbound(n, set) ==
  /\ Quiet /\ n \in listed
  /\ job' = [Idle EXCEPT !.todo = <<"put">>, !.new = n, !.set = set]
  /\ UNCHANGED <<listed, config, mention, owed>>

(* What mentions a deleted outbound goes on mentioning it.                 *)
DeleteOutbound(n) ==
  /\ Quiet /\ n \in listed
  /\ job' = [Idle EXCEPT !.todo = <<"clear", "unlist">>, !.old = n]
  /\ owed' = {o \in owed : o.name # n}
  /\ UNCHANGED <<listed, config, mention>>

Mention(r, n) ==
  /\ Quiet /\ n \in listed
  /\ mention' = [mention EXCEPT ![r] = n]
  /\ UNCHANGED <<listed, config, job, owed>>

(* ValidateOutboundName refuses the names the kernel's configuration has   *)
(* taken, and "proxy" keeps its own.                                       *)
RenameOutbound(old, new) ==
  /\ Quiet /\ old # "proxy" /\ new \in Custom
  /\ old \in listed /\ new \notin listed
  /\ job' = [todo |-> <<"list", "put", "clear", "unlist", "servers", "subs", "rules">>,
              old |-> old, new |-> new, set |-> config[old].set]
  /\ UNCHANGED <<listed, config, mention, owed>>

-----------------------------------------------------------------------------
(* Their transactions.                                                     *)
ListNew ==
  /\ At("list")
  /\ listed' = listed \union {job.new}
  /\ Done /\ UNCHANGED <<config, mention, owed>>

Owe == owed' = {o \in owed : o.name \notin {job.old, job.new}} \union
               {[name |-> job.new, set |-> job.set]}

(* Variant: the record keeps the name it had.                              *)
PutNewSameName ==
  /\ At("put")
  /\ config' = [config EXCEPT ![job.new] = [name |-> IF job.old = None THEN job.new ELSE job.old,
                                            set |-> job.set]]
  /\ Owe /\ Done /\ UNCHANGED <<listed, mention>>

PutNew ==
  /\ At("put")
  /\ config' = [config EXCEPT ![job.new] = [name |-> job.new, set |-> job.set]]
  /\ Owe /\ Done /\ UNCHANGED <<listed, mention>>

ClearOld ==
  /\ At("clear")
  /\ config' = [config EXCEPT ![job.old] = NoConfig]
  /\ Done /\ UNCHANGED <<listed, mention, owed>>

UnlistOld ==
  /\ At("unlist")
  /\ listed' = listed \ {job.old}
  /\ Done /\ UNCHANGED <<config, mention, owed>>

(* RetargetOutboundReferences, one list after the other.                   *)
Retarget(label, rows) ==
  /\ At(label)
  /\ mention' = [r \in Rows |->
       IF r \in rows /\ mention[r] = job.old THEN job.new ELSE mention[r]]
  /\ Done /\ UNCHANGED <<listed, config, owed>>

Crash ==
  /\ ~Quiet
  /\ job' = Idle
  /\ UNCHANGED <<listed, config, mention, owed>>

-----------------------------------------------------------------------------
Next ==
  \/ \E n \in Custom, set \in Settings : CreateOutbound(n, set) \/ UpdateOutbound(n, set)
  \/ \E n \in Custom : DeleteOutbound(n)
  \/ \E r \in Rows, n \in Custom : Mention(r, n)
  \/ \E old, new \in Names : RenameOutbound(old, new)
  \/ ListNew \/ PutNew \/ ClearOld \/ UnlistOld
  \/ Retarget("servers", Own) \/ Retarget("subs", Subscribed) \/ Retarget("rules", Ruled)
  \/ Crash

Spec == Init /\ [][Next]_vars

-----------------------------------------------------------------------------
TypeOK ==
  /\ listed \subseteq Custom
  /\ \A n \in Names : config[n].name \in Names \union {None} /\ config[n].set \in Settings \union {None}
  /\ mention \in [Rows -> Names]
  /\ job.old \in Custom \union {None} /\ job.new \in Custom \union {None}

KeepsConfigurations == \A o \in owed : o.name \in listed /\ config[o.name] = o

MovesMentions == Retarget("rules", Ruled) => \A r \in Rows : mention'[r] # job.old

(* "a rename must not lose the configuration" (outbound_rename_test.go:48), *)
(* at whichever transaction it is stopped: what every outbound was         *)
(* configured to do is kept under a listed name, in a record of that name; *)
(* and a rename that goes through leaves nothing that names the outbound   *)
(* it was, "a single place missed makes that function fail silently"       *)
(* (outbound.go:205).                                                      *)
RenameLosesNothing == []KeepsConfigurations /\ [][MovesMentions]_vars
=============================================================================

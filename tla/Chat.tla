-------------------------------- MODULE Chat --------------------------------
(***************************************************************************)
(* One user's chat: the FSM state and the FSM data that every dialogue of  *)
(* the bot shares.  aiogram keeps one state and one dict for a user, and   *)
(* handles updates concurrently; entering a wizard sets the state and      *)
(* leaves the dict, and a handler that waits for a server, a panel or      *)
(* Pingachock (a run) leaves the chat open meanwhile.                      *)
(*                                                                         *)
(* What is typed in a dialogue is represented by the number of the         *)
(* dialogue, so every value tells which dialogue it came from.  A handler  *)
(* that makes no remote call is one step; the others are cut at the calls. *)
(***************************************************************************)
EXTENDS Naturals, Sequences

CONSTANTS
    Absent,    \* a key that is not in the FSM data
    Nil,       \* Python's None
    Root,      \* the login "root"
    Panels,    \* Remnawave panels of the organisation
    Slots,     \* bound: handlers at work at the same time
    Plans      \* bounds of a behaviour: the wizards the user enters one after the
               \* other, how often she acts while a handler of hers is at work, how
               \* many remote calls fail, how often someone retags a host

Keys == {"panel_id", "ips", "ip", "login", "auth_method", "password", "key_data",
         "become_pass", "secret_key", "node_addresses", "profile", "zone",
         "tags", "selected_tag", "source", "distribution", "set_id", "auto_ip",
         "auto_each_ips"}

Wizards == {"remnanode", "hysteria", "hosts"}

ASSUME ChatAssumption ==
    /\ Plans \subseteq [wizards : Seq(Wizards), overlaps : Nat, mishaps : Nat, retags : Nat]
    /\ Absent # Nil /\ Absent # Root /\ Nil # Root
    /\ {Absent, Nil} \cap Panels = {}
    /\ Absent \notin Nat

VARIABLES
    fsm,       \* the FSM state: <<wizard, step>>
    data,      \* the FSM data
    runs,      \* handlers at work on a remote call
    plan,      \* the plan this behaviour follows
    talk,      \* how many were entered: the number of the current dialogue
    mixed,     \* history: what happened that mixes dialogues
    missing,   \* history: handlers that raised KeyError on the FSM data
    mishaps,   \* remote calls that failed
    overlaps   \* what the user did while a handler of hers was at work

chatVars == <<fsm, data, runs, plan, talk, mixed, missing, mishaps, overlaps>>

NoState == <<"none", "none">>
NoData  == [k \in Keys |-> Absent]
NoRun   == [kind |-> "none"]

Steps == {"none", "panel", "ip", "login", "auth", "passphrase", "become", "secret",
          "port", "profile", "zone", "manual", "subdomain", "tag", "mode", "address",
          "source", "distribution", "ipset", "single", "confirm_bulk", "confirm_auto"}

ChatTypeOK ==
    /\ fsm \in (Wizards \cup {"none"}) \X Steps
    /\ DOMAIN data = Keys
    /\ DOMAIN runs = Slots
    /\ plan \in Plans /\ talk \in 0..Len(plan.wizards)
    /\ mixed \subseteq {"leftover", "stray", "retagged"}

ChatInit ==
    /\ fsm = NoState /\ data = NoData
    /\ runs = [i \in Slots |-> NoRun]
    /\ plan \in Plans /\ talk = 0
    /\ mixed = {} /\ missing = {} /\ mishaps = 0 /\ overlaps = 0

Busy == \E i \in Slots : runs[i] # NoRun

\* FSMContext.update_data.
Update(upd) == [k \in Keys |-> IF k \in DOMAIN upd THEN upd[k] ELSE data[k]]

Lacks(keys) == \E k \in keys : data[k] = Absent

\* The user does something: with a handler at work, two of them share the chat.
Meets == IF Busy THEN overlaps < plan.overlaps /\ overlaps' = overlaps + 1
         ELSE UNCHANGED overlaps

Heard == Meets /\ UNCHANGED <<plan, talk, mixed, mishaps>>

\* A handler of the user's that only moves the dialogue on.
Reply(step, upd) ==
    /\ Heard /\ fsm' = <<fsm[1], step>> /\ data' = Update(upd)
    /\ UNCHANGED <<runs, missing>>

\* FSMContext.clear.
Clear == fsm' = NoState /\ data' = NoData

Drop == Heard /\ Clear /\ UNCHANGED <<runs, missing>>

\* The handler raises KeyError; what it stored before stays.
Raises(handler, upd) ==
    /\ Heard /\ missing' = missing \cup {handler} /\ data' = Update(upd)
    /\ UNCHANGED <<fsm, runs>>

\* The handler goes on to a remote call; the state stays what it was.
Starts(run, upd) ==
    /\ Heard /\ data' = Update(upd)
    /\ \E i \in Slots : runs[i] = NoRun /\ runs' = [runs EXCEPT ![i] = run]
    /\ UNCHANGED <<fsm, missing>>

Nothing == [k \in {} |-> Absent]

\* What a handler at work does to the chat: nothing until it ends.
Unheard == UNCHANGED <<plan, talk, mixed, missing, overlaps>>

Quits(i) == runs' = [runs EXCEPT ![i] = NoRun] /\ Unheard

Ends(i) == Quits(i) /\ UNCHANGED mishaps

EndsClearing(i) == Ends(i) /\ Clear

\* A remote call fails.
Fails(i) == Quits(i) /\ mishaps < plan.mishaps /\ mishaps' = mishaps + 1

\* It is refused, with an error the handler catches before it clears the chat.
Refused(i) == Fails(i) /\ Clear

\* It raises something the handler does not catch (a timeout, a refused
\* connection): state and data stay as they are.
Breaks(i) == Fails(i) /\ UNCHANGED <<fsm, data>>

GoesOn(i, at) == /\ runs' = [runs EXCEPT ![i].at = at]
                 /\ Unheard /\ UNCHANGED <<fsm, data, mishaps>>

\* A handler that looks something up at a panel or at Cloudflare and only then
\* stores it and sets the next state, whatever the state has become.
Lookup(to, upd) == [kind |-> "lookup", to |-> to, upd |-> upd]

LookupEnds(i) ==
    /\ runs[i].kind = "lookup"
    /\ \/ Breaks(i)   \* refused, not found or broken: the dialogue stays
       \/ Ends(i) /\ fsm' = runs[i].to /\ data' = Update(runs[i].upd)

\* The next wizard of the plan: the state is set, the data is not cleared.
Enters(wizard) ==
    /\ talk < Len(plan.wizards) /\ plan.wizards[talk + 1] = wizard
    /\ talk' = talk + 1 /\ fsm' = <<wizard, "panel">>
    /\ Meets
    /\ mixed' = IF data # NoData THEN mixed \cup {"leftover"} ELSE mixed
    /\ UNCHANGED <<data, runs, plan, missing, mishaps>>

\* /start.
StartHandler == talk > 0 /\ fsm # NoState /\ Drop
=============================================================================

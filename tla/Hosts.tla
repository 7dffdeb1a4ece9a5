------------------------------- MODULE Hosts --------------------------------
(***************************************************************************)
(* The hosts wizard of handlers/hosts_fsm.py: it sets the addresses of the *)
(* panel's hosts that carry a tag, to one address or to one each, typed,   *)
(* picked from an IP set, or found by a search for working ones.  What the *)
(* user confirms was computed from one listing of the hosts and is applied *)
(* to another.                                                             *)
(***************************************************************************)
EXTENDS Chat

CONSTANTS
    HostList,  \* the panel's hosts, in the order in which it lists them
    FirstTag,  \* the tag each host has at first
    IpSets     \* the organisation's IP sets: sequences of addresses

Hosts == {HostList[k] : k \in DOMAIN HostList}
Tags  == {FirstTag[h] : h \in Hosts}

Addresses == UNION {{set[k] : k \in DOMAIN set} : set \in IpSets}

ASSUME HostsAssumption ==
    /\ FirstTag = [h \in Hosts |-> FirstTag[h]]
    /\ IpSets \subseteq Seq(Addresses)
    /\ Absent \notin Tags \cup Addresses \cup Seq(Addresses) \cup {"auto", "manual", "same", "each"}
    /\ \A T \in SUBSET Tags : T # Absent

VARIABLES
    hostTag,  \* the tag of each host on the panel
    shown,    \* the <<host, address>> pairs of the newest preview
    unlike,   \* history: <<host, address>> pairs written though not shown, or not
              \* written though shown and nothing failed
    retags    \* changes of a host's tag so far

hostsVars == <<hostTag, shown, unlike, retags>>

HostsInit ==
    /\ hostTag = FirstTag /\ shown = {} /\ unlike = {} /\ retags = 0

In(step) == fsm = <<"hosts", step>>

AsShown == UNCHANGED hostsVars

\* The preview's message is replaced by another.
Unshown == shown' = {} /\ UNCHANGED <<hostTag, unlike, retags>>

\* The hosts that carry the tag, as get_hosts lists them.
Tagged(tags, tag) == SelectSeq(HostList, LAMBDA h : tags[h] = tag)
Targets(tag)      == Tagged(hostTag, tag)

\* zip(targets, ips).
Zip(hosts, ips) == {<<hosts[k], ips[k]>> : k \in DOMAIN hosts \cap DOMAIN ips}

SameIp(hosts, ip) == {<<hosts[k], ip>> : k \in DOMAIN hosts}

\* What a choice of address(es) gives to hosts.
Pairs(how, hosts) == IF how.distribution = "same" THEN SameIp(hosts, how.ip)
                     ELSE Zip(hosts, how.ips)

Same(ip)  == [distribution |-> "same", ip |-> ip]
Each(ips) == [distribution |-> "each", ips |-> ips]

-----------------------------------------------------------------------------
(* From the panel to the set.                                               *)

HostsMenu == Enters("hosts") /\ AsShown

\* get_hosts gives the tags.
HostsPanelChosen ==
    /\ In("panel") /\ AsShown
    /\ \E p \in Panels :
          Starts(Lookup(<<"hosts", "tag">>,
                        [panel_id |-> p, tags |-> {hostTag[h] : h \in Hosts}]), Nothing)

TagChosen ==
    /\ In("tag") /\ AsShown
    /\ IF Lacks({"tags"}) THEN Raises("tag_chosen", Nothing)
       ELSE \E tag \in data["tags"] : Reply("mode", [selected_tag |-> tag])

TopManual ==
    /\ In("mode") /\ AsShown
    /\ IF Lacks({"selected_tag"}) THEN Raises("top_manual", Nothing)
       ELSE Reply("address", Nothing)

TopIpsets == In("mode") /\ AsShown /\ Reply("source", Nothing)

SourceChosen(source) ==
    In("source") /\ AsShown /\ Reply("distribution", [source |-> source])

DistChosen(distribution) ==
    In("distribution") /\ AsShown /\ Reply("ipset", [distribution |-> distribution])

-----------------------------------------------------------------------------
(* Applying.                                                                *)

\* A handler that applies `how`: the panel is looked up, the hosts are listed,
\* and every one that carries the tag is patched.  "early" handlers clear the
\* chat before they list the hosts.
Applies(handler, keys, how, promise, early) ==
    IF Lacks(keys) THEN Raises(handler, Nothing) /\ AsShown
    ELSE \/ Drop /\ Unshown   \* the panel, or the IP set, is gone
         \/ /\ data["panel_id"] \in Panels
            /\ Heard /\ UNCHANGED missing /\ AsShown
            /\ IF early THEN Clear ELSE UNCHANGED <<fsm, data>>
            /\ \E i \in Slots :
                  /\ runs[i] = NoRun
                  /\ runs' = [runs EXCEPT ![i] =
                        [kind |-> "apply", at |-> "list", tag |-> data["selected_tag"],
                         how |-> how, early |-> early, promise |-> promise, pairs |-> {}]]

\* The address typed is promised to all hosts with the tag.
GotAddress ==
    /\ In("address")
    /\ Applies("got_address", {"panel_id", "selected_tag"}, Same(talk),
               SameIp(Targets(data["selected_tag"]), talk), TRUE)

\* An address picked from the set.
IpSelected ==
    /\ In("single") /\ data["set_id"] # Absent
    /\ \E k \in DOMAIN data["set_id"] :
          Applies("_apply_same_ip", {"panel_id", "selected_tag"}, Same(data["set_id"][k]),
                  SameIp(Targets(data["selected_tag"]), data["set_id"][k]), TRUE)

ManualBulkConfirm ==
    /\ In("confirm_bulk") /\ shown # {}
    /\ Applies("manual_bulk_confirm", {"panel_id", "selected_tag", "set_id"},
               Each(data["set_id"]), shown, FALSE)

\* data["auto_ip"], read after the chat was cleared; data.get("auto_each_ips", []).
AutoConfirm ==
    LET each == IF data["auto_each_ips"] = Absent THEN <<>> ELSE data["auto_each_ips"]
        how  == IF data["distribution"] = "same" THEN Same(data["auto_ip"]) ELSE Each(each)
    IN  /\ In("confirm_auto") /\ shown # {}
        /\ Applies("auto_confirm", {"panel_id", "selected_tag", "distribution"},
                   how, shown, FALSE)

\* Fault: the addresses are dealt out to all hosts, whatever their tag.
ApplyListsAll(i) ==
    /\ runs[i].kind = "apply" /\ runs[i].at = "list" /\ Unshown
    /\ runs' = [runs EXCEPT ![i].at = "patch", ![i].pairs = Pairs(runs[i].how, HostList)]
    /\ Unheard /\ UNCHANGED mishaps
    /\ IF runs[i].early THEN UNCHANGED <<fsm, data>> ELSE Clear

\* get_hosts; the pairs are made of the hosts as they are listed now.
ApplyLists(i) ==
    /\ runs[i].kind = "apply" /\ runs[i].at = "list" /\ Unshown
    /\ \/ IF runs[i].early THEN Fails(i) /\ UNCHANGED <<fsm, data>> ELSE Refused(i)
       \/ Breaks(i)
       \/ /\ runs' = [runs EXCEPT ![i].at = "patch",
                                  ![i].pairs = Pairs(runs[i].how, Targets(runs[i].tag))]
          /\ Unheard /\ UNCHANGED mishaps
          /\ IF runs[i].early THEN UNCHANGED <<fsm, data>> ELSE Clear

\* gather: some of the hosts are patched, and every failure is only reported.
ApplyPatches(i) ==
    /\ runs[i].kind = "apply" /\ runs[i].at = "patch" /\ UNCHANGED <<fsm, data>>
    /\ IF runs[i].how = Same(Absent)
       THEN /\ runs' = [runs EXCEPT ![i] = NoRun] /\ missing' = missing \cup {"auto_confirm"}
            /\ UNCHANGED <<plan, talk, mixed, mishaps, overlaps, unlike>>
       ELSE LET pairs == runs[i].pairs
            IN  \/ /\ Ends(i)
                   /\ unlike' = unlike \cup (pairs \ runs[i].promise)
                                     \cup (runs[i].promise \ pairs)
                \/ \E ok \in SUBSET pairs : Fails(i) /\ unlike' = unlike \cup (ok \ runs[i].promise)
    /\ UNCHANGED <<hostTag, shown, retags>>

-----------------------------------------------------------------------------
(* The set is chosen.                                                       *)

\* By hand: a picker, or a preview of the set dealt out to the hosts; by a
\* search: the hosts are listed, and then as many working addresses are looked
\* for as are needed.
IpsetChosen ==
    /\ In("ipset") /\ AsShown
    /\ \E set \in IpSets :
          LET upd == [set_id |-> set]
              goes(kind) ==
                  Starts([kind |-> kind, at |-> "list", tag |-> data["selected_tag"], set |-> set,
                          distribution |-> data["distribution"], targets |-> <<>>], upd)
          IN  IF Lacks({"source", "distribution"}) THEN Raises("ipset_chosen", upd)
              ELSE IF data["source"] = "manual" /\ data["distribution"] = "same"
              THEN Reply("single", upd)
              ELSE IF Lacks({"panel_id", "selected_tag"}) THEN Raises("ipset_chosen", upd)
              ELSE /\ data["panel_id"] \in Panels
                   /\ goes(IF data["source"] = "manual" THEN "preview" ELSE "search")

\* _build_manual_bulk_preview.
ManualBulkPreview(i) ==
    /\ runs[i].kind = "preview"
    /\ \/ Breaks(i) /\ UNCHANGED shown   \* refused or broken
       \/ Targets(runs[i].tag) = <<>> /\ Ends(i) /\ UNCHANGED <<fsm, data, shown>>
       \/ /\ Targets(runs[i].tag) # <<>>
          /\ Ends(i) /\ fsm' = <<"hosts", "confirm_bulk">> /\ UNCHANGED data
          /\ shown' = Pairs(Each(runs[i].set), Targets(runs[i].tag))
    /\ UNCHANGED <<hostTag, unlike, retags>>

\* _handle_auto: the hosts are listed; without any, the dialogue stays.
SearchLists(i) ==
    LET targets == Targets(runs[i].tag)
    IN  /\ runs[i].kind = "search" /\ runs[i].at = "list" /\ AsShown
        /\ \/ Breaks(i)
           \/ targets = <<>> /\ Ends(i) /\ UNCHANGED <<fsm, data>>
           \/ /\ targets # <<>>
              /\ runs' = [runs EXCEPT ![i].at = "find", ![i].targets = targets]
              /\ Unheard /\ UNCHANGED <<fsm, data, mishaps>>

\* _find_good_ips: at most `needed` of those that answer, in the order of the set.
Answers(set, needed) ==
    LET picks == {at \in UNION {[1..n -> DOMAIN set] : n \in 0..needed} :
                     \A j, k \in DOMAIN at : j < k => at[j] < at[k]}
    IN  {[k \in DOMAIN at |-> set[at[k]]] : at \in picks}

\* What was found is stored under one key or another, and is shown.
SearchEnds(i) ==
    LET same == runs[i].distribution = "same"
    IN  /\ runs[i].kind = "search" /\ runs[i].at = "find" /\ Ends(i)
        /\ \E good \in Answers(runs[i].set, IF same THEN 1 ELSE Len(runs[i].targets)) :
              IF good = <<>> THEN UNCHANGED <<fsm, data, shown>>
              ELSE /\ fsm' = <<"hosts", "confirm_auto">>
                   /\ data' = Update(IF same THEN [auto_ip |-> good[1]]
                                     ELSE [auto_each_ips |-> good])
                   /\ shown' = Pairs(IF same THEN Same(good[1]) ELSE Each(good), runs[i].targets)
        /\ UNCHANGED <<hostTag, unlike, retags>>

-----------------------------------------------------------------------------
(* hosts_back: from anywhere, also from the dialogue of another wizard.     *)

Previous == [panel |-> "none", tag |-> "panel", mode |-> "tag", address |-> "mode",
             source |-> "mode", distribution |-> "source", ipset |-> "distribution",
             single |-> "ipset", confirm_bulk |-> "ipset", confirm_auto |-> "ipset"]

HostsBack ==
    /\ Unshown /\ fsm # NoState /\ \E k \in 1..talk : plan.wizards[k] = "hosts"
    /\ IF fsm[1] = "hosts"
       THEN IF In("panel") THEN Drop ELSE Reply(Previous[fsm[2]], Nothing)
       ELSE /\ fsm' = <<"hosts", "ipset">>
            /\ Meets /\ mixed' = mixed \cup {"stray"}
            /\ UNCHANGED <<data, runs, plan, talk, missing, mishaps>>

\* Someone changes the tag of a host on the panel.
PanelRetags ==
    /\ retags < plan.retags /\ retags' = retags + 1
    /\ \E h \in Hosts : \E tag \in Tags \ {hostTag[h]} : hostTag' = [hostTag EXCEPT ![h] = tag]
    /\ mixed' = mixed \cup {"retagged"}
    /\ UNCHANGED <<fsm, data, runs, plan, talk, missing, mishaps, overlaps, shown, unlike>>

HostsStep ==
    \/ HostsMenu \/ HostsPanelChosen \/ TagChosen \/ TopManual \/ TopIpsets
    \/ \E source \in {"auto", "manual"} : SourceChosen(source)
    \/ \E distribution \in {"same", "each"} : DistChosen(distribution)
    \/ IpsetChosen \/ GotAddress \/ IpSelected \/ ManualBulkConfirm \/ AutoConfirm
    \/ HostsBack

HostsRun(i) ==
    \/ ApplyLists(i) \/ ApplyPatches(i) \/ ManualBulkPreview(i)
    \/ SearchLists(i) \/ SearchEnds(i)

HostsNext == HostsStep \/ PanelRetags \/ \E i \in Slots : HostsRun(i)
=============================================================================

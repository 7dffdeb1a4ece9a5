-------------------------- MODULE Dialogues_proofs --------------------------
(***************************************************************************)
(* HysteriaNodeServed of Dialogues, proved for any plans, any number of    *)
(* panels, profiles, domains and servers, and any number of handlers at    *)
(* work at the same time.                                                  *)
(***************************************************************************)
EXTENDS Dialogues, SequenceTheorems, TLAPS

\* Some pipeline run of n stands at one of the points.
Reached(n, points) ==
    \E i \in Slots : runs[i].kind = "pipeline" /\ runs[i].of = n /\ runs[i].at \in points

\* What an update of the data may say of the profile.
NamesProfile(upd) == "profile" \in DOMAIN upd => upd["profile"] \in Profiles

RunShape(r) ==
    /\ "kind" \in DOMAIN r
    /\ r.kind = "lookup" => NamesProfile(r.upd)
    /\ r.kind = "pipeline" => {"at", "of", "found"} \subseteq DOMAIN r

IsRun(q) ==
    /\ q = [server |-> q.server, domain |-> q.domain, profile |-> q.profile]
    /\ q.domain \in Domains /\ q.profile \in Profiles

Begun == {q.server : q \in pipelines}

ServedTypes ==
    /\ runs = [i \in Slots |-> runs[i]] /\ \A i \in Slots : RunShape(runs[i])
    /\ data["profile"] \in Profiles \cup {Absent}
    /\ \A q \in pipelines : IsRun(q)
    /\ \A n \in nodes : n.preset = "hysteria" => n.domain \in Domains /\ n.profile \in Profiles
    /\ dns \in [Domains -> Seq(Begun)]
    /\ certPath \in [Profiles -> Domains \cup {Nil}]

\* HysteriaNodeServed is not inductive: a node is created at the end of a
\* pipeline, from what its earlier steps left.  So each point of a pipeline has
\* what the points before it made, unless another pipeline took it over.
ServedInv ==
    /\ ServedTypes
    /\ \A i \in Slots : runs[i].kind = "pipeline" => runs[i].of \in pipelines
    /\ \A i \in Slots : runs[i].kind = "pipeline" /\ runs[i].at = "dns_put" /\ runs[i].found
                           => dns[runs[i].of.domain] # <<>>
    /\ \A q \in pipelines : Reached(q, {"cert", "profile", "node"}) => DomainLeads(q)
    /\ \A q \in pipelines : Reached(q, {"profile", "node"}) => <<q.server, q.domain>> \in certs
    /\ \A q \in pipelines : Reached(q, {"node"}) => ProfileServes(q)
    /\ HysteriaNodeServed

LEMMA ServedInit == Init => ServedInv
<1> SUFFICES ASSUME Init PROVE ServedInv
    OBVIOUS
<1> USE DEF Init, ChatInit, DeployInit, NoRun
<1>1. ServedTypes
  <2>1. <<>> \in Seq(Begun)
      OBVIOUS
  <2> QED BY <2>1 DEF ServedTypes, RunShape, NoData, Keys
<1>2. HysteriaNodeServed
    BY DEF HysteriaNodeServed, PathIsCertified
<1> QED BY <1>1, <1>2 DEF ServedInv, Reached

-----------------------------------------------------------------------------
(* The steps that no pipeline notices.                                      *)

Calm(r) == RunShape(r) /\ r.kind # "pipeline"

RunsKept ==
    /\ runs' = [i \in Slots |-> runs'[i]]
    /\ \A i \in Slots : runs'[i] = runs[i] \/ Calm(runs'[i])

DataKept == data'["profile"] \in Profiles \cup {Absent}

ServiceKept == UNCHANGED <<dns, certs, certPath, nodes, pipelines>>

LEMMA Bystander ==
    ASSUME ServedInv, RunsKept, DataKept, ServiceKept
    PROVE  ServedInv'
<1> USE DEF ServiceKept
<1>1. ServedTypes'
    BY DEF ServedInv, ServedTypes, RunsKept, Calm, DataKept, Begun, IsRun, RunShape
<1>2. ASSUME NEW q, NEW points, Reached(q, points)' PROVE Reached(q, points)
    BY <1>2 DEF Reached, RunsKept, Calm
<1>3. HysteriaNodeServed'
    BY DEF ServedInv, HysteriaNodeServed, PathIsCertified, ProfileServes, DomainLeads,
           OtherPipelines
<1>4. \A q : (DomainLeads(q) <=> DomainLeads(q)') /\ (ProfileServes(q) <=> ProfileServes(q)')
    BY DEF ProfileServes, DomainLeads, OtherPipelines
<1>5. \A q \in pipelines' :
         /\ Reached(q, {"cert", "profile", "node"})' => DomainLeads(q)'
         /\ Reached(q, {"profile", "node"})' => <<q.server, q.domain>> \in certs'
         /\ Reached(q, {"node"})' => ProfileServes(q)'
    BY <1>2, <1>4 DEF ServedInv
<1>6. \A i \in Slots : runs'[i].kind = "pipeline" => runs'[i] = runs[i]
    BY DEF RunsKept, Calm
<1> QED BY <1>1, <1>3, <1>5, <1>6 DEF ServedInv

\* A handler with no part in a pipeline: it may start or end runs and write data.
Aside == RunsKept /\ DataKept

NoProfile(upd) == "profile" \notin DOMAIN upd

LEMMA RunsUnchanged == ASSUME ServedTypes, UNCHANGED runs PROVE RunsKept
BY DEF ServedTypes, RunsKept

LEMMA UpdateKept ==
    ASSUME ServedTypes, NEW STATE upd, NamesProfile(upd), data' = Update(upd)
    PROVE  DataKept
BY DEF ServedTypes, NamesProfile, Update, DataKept, Keys

LEMMA NoProfileNames == ASSUME NEW STATE upd, NoProfile(upd) PROVE NamesProfile(upd)
BY DEF NoProfile, NamesProfile

LEMMA NothingNames == NoProfile(Nothing) /\ NamesProfile(Nothing)
BY DEF Nothing, NoProfile, NamesProfile

LEMMA ReplyAside ==
    ASSUME ServedTypes, NEW STATE upd, NoProfile(upd), NEW STATE step, Reply(step, upd)
    PROVE  Aside
BY RunsUnchanged, UpdateKept, NoProfileNames DEF Reply, Aside

LEMMA RaisesAside ==
    ASSUME ServedTypes, NEW STATE upd, NoProfile(upd), NEW STATE handler, Raises(handler, upd)
    PROVE  Aside
BY RunsUnchanged, UpdateKept, NoProfileNames DEF Raises, Aside

LEMMA ClearKeeps == Clear => DataKept
BY DEF Clear, NoData, Keys, DataKept

LEMMA DropAside == ASSUME ServedTypes, Drop PROVE Aside
BY RunsUnchanged, ClearKeeps DEF Drop, Aside

LEMMA PutKeeps ==
    ASSUME ServedTypes, NEW i \in Slots, NEW STATE run, Calm(run),
           runs' = [runs EXCEPT ![i] = run]
    PROVE  RunsKept
<1>1. \A j \in Slots : runs'[j] = IF j = i THEN run ELSE runs[j]
    BY DEF ServedTypes
<1>2. runs' = [j \in Slots |-> runs'[j]]
    BY DEF ServedTypes
<1>3. ASSUME NEW j \in Slots, j = i PROVE runs'[j] = run
    BY <1>1, <1>3
<1> QED BY <1>1, <1>2 DEF RunsKept, Calm, RunShape, NamesProfile

LEMMA StartsAside ==
    ASSUME ServedTypes, NEW STATE run, Calm(run), NEW STATE upd, NoProfile(upd), Starts(run, upd)
    PROVE  Aside
<1>1. PICK i \in Slots : runs' = [runs EXCEPT ![i] = run]
    BY DEF Starts
<1>2. RunsKept
    BY <1>1, PutKeeps
<1> QED BY <1>2, UpdateKept, NoProfileNames DEF Starts, Aside

LEMMA QuitsKeeps == ASSUME ServedTypes, NEW i \in Slots, Quits(i) PROVE RunsKept
<1>1. Calm(NoRun)
    BY DEF Calm, RunShape, NoRun
<1> QED BY <1>1, PutKeeps DEF Quits

LEMMA GoesOnKeeps ==
    ASSUME ServedTypes, NEW i \in Slots, runs[i].kind # "pipeline", runs[i].kind # "lookup",
           NEW STATE at, GoesOn(i, at)
    PROVE  Aside
<1> DEFINE run == [runs[i] EXCEPT !.at = at]
<1>1. runs' = [runs EXCEPT ![i] = run]
    BY DEF GoesOn
<1>2. Calm(run)
    BY DEF Calm, RunShape, ServedTypes
<1>3. RunsKept
    BY <1>1, <1>2, PutKeeps
<1> QED BY <1>3 DEF GoesOn, Aside, DataKept, ServedTypes

LEMMA EndsAside ==
    ASSUME ServedTypes, NEW i \in Slots,
           EndsClearing(i) \/ Refused(i) \/ Breaks(i)
    PROVE  Aside
<1>1. RunsKept
    BY QuitsKeeps DEF EndsClearing, Ends, Refused, Breaks, Fails
<1>2. CASE EndsClearing(i) \/ Refused(i)
    BY <1>1, <1>2, ClearKeeps DEF EndsClearing, Refused, Aside
<1>3. CASE Breaks(i)
    BY <1>1, <1>3 DEF Breaks, Aside, DataKept, ServedTypes
<1> QED BY <1>2, <1>3

-----------------------------------------------------------------------------
(* The chat and the deployment dialogues.                                   *)

LEMMA EntersAside == ASSUME ServedTypes, NEW STATE wizard, Enters(wizard) PROVE Aside
BY RunsUnchanged DEF Enters, Aside, DataKept, ServedTypes

LEMMA LookupAside ==
    ASSUME ServedTypes, NEW STATE to, NEW STATE upd, NamesProfile(upd),
           Starts(Lookup(to, upd), Nothing)
    PROVE  Aside
<1>1. Calm(Lookup(to, upd))
    BY DEF Calm, RunShape, Lookup
<1> QED BY <1>1, StartsAside, NothingNames

LEMMA ChatSteps == ASSUME ServedTypes, ChatNext PROVE Aside
<1>1. CASE StartHandler
    BY <1>1, DropAside DEF StartHandler
<1>2. ASSUME NEW i \in Slots, LookupEnds(i) PROVE Aside
  <2>1. CASE Breaks(i)
      BY <2>1, EndsAside
  <2>2. CASE Ends(i) /\ data' = Update(runs[i].upd)
    <3>1. NamesProfile(runs[i].upd)
        BY <1>2 DEF LookupEnds, ServedTypes, RunShape
    <3> QED BY <2>2, <3>1, UpdateKept, QuitsKeeps DEF Ends, Aside
  <2> QED BY <1>2, <2>1, <2>2 DEF LookupEnds
<1> QED BY <1>1, <1>2 DEF ChatNext

LEMMA RunDeploymentAside ==
    ASSUME ServedTypes, NEW STATE upd, NoProfile(upd), RunDeployment(upd)
    PROVE  Aside /\ ServiceKept
<1>1. ServiceKept
    BY DEF RunDeployment, remote, ServiceKept
<1>2. \/ Raises("_run_deployment", upd) \/ Drop
      \/ \E servers, panel, secret :
            Starts([kind |-> "install", at |-> "playbook", servers |-> servers,
                    panel |-> panel, secret |-> secret], upd)
    BY DEF RunDeployment
<1>3. ASSUME NEW servers, NEW panel, NEW secret,
             Starts([kind |-> "install", at |-> "playbook", servers |-> servers,
                     panel |-> panel, secret |-> secret], upd)
      PROVE  Aside
  <2> DEFINE run == [kind |-> "install", at |-> "playbook", servers |-> servers,
                     panel |-> panel, secret |-> secret]
  <2>1. Calm(run)
      BY DEF Calm, RunShape
  <2> HIDE DEF run
  <2> QED BY <1>3, <2>1, StartsAside DEF run
<1> QED BY <1>1, <1>2, <1>3, RaisesAside, DropAside

LEMMA HysDeployNodeAside ==
    ASSUME ServedTypes, NEW STATE upd, NoProfile(upd), HysDeployNode(upd)
    PROVE  Aside /\ ServiceKept
<1>1. ServiceKept
    BY DEF HysDeployNode, remote, ServiceKept
<1>2. \/ Raises("_hys_deploy_node", upd) \/ Drop
      \/ \E server, panel :
            Starts([kind |-> "hys_install", at |-> "playbook", server |-> server,
                    panel |-> panel], upd)
    BY DEF HysDeployNode
<1>3. ASSUME NEW server, NEW panel,
             Starts([kind |-> "hys_install", at |-> "playbook", server |-> server,
                     panel |-> panel], upd)
      PROVE  Aside
  <2> DEFINE run == [kind |-> "hys_install", at |-> "playbook", server |-> server,
                     panel |-> panel]
  <2>1. Calm(run)
      BY DEF Calm, RunShape
  <2> HIDE DEF run
  <2> QED BY <1>3, <2>1, StartsAside DEF run
<1> QED BY <1>1, <1>2, <1>3, RaisesAside, DropAside

LEMMA AfterAuthAside ==
    ASSUME ServedTypes, NEW STATE upd, NoProfile(upd), NEW STATE wizard,
           AfterAuth(wizard, upd) \/ AfterBecome(wizard, upd)
    PROVE  Aside /\ ServiceKept
<1>1. CASE AfterBecome(wizard, upd)
    BY <1>1, RunDeploymentAside, HysDeployNodeAside, ReplyAside
       DEF AfterBecome, StillHere, deployVars, ServiceKept
<1>2. CASE Reply("become", upd) /\ StillHere
    BY <1>2, ReplyAside DEF StillHere, deployVars, ServiceKept
<1> QED BY <1>1, <1>2 DEF AfterAuth

LEMMA AuthSteps ==
    ASSUME ServedTypes, NEW STATE wizard, NEW STATE secret,
           SendsKey(wizard) \/ SendsPassword(wizard) \/ SendsPassphrase(wizard)
              \/ BecomesWith(wizard, secret)
    PROVE  Aside /\ ServiceKept
<1> DEFINE key == [auth_method |-> "key", key_data |-> talk]
           password == [auth_method |-> "password", password |-> talk]
           become == [become_pass |-> secret]
<1>1. NoProfile(key) /\ NoProfile(password) /\ NoProfile(become)
    BY DEF NoProfile
<1> HIDE DEF key, password, become
<1>2. CASE SendsKey(wizard)
    BY <1>1, <1>2, ReplyAside, AfterAuthAside DEF SendsKey, key, StillHere, deployVars, ServiceKept
<1>3. CASE SendsPassword(wizard)
    BY <1>1, <1>3, AfterAuthAside DEF SendsPassword, password
<1>4. CASE SendsPassphrase(wizard)
    BY <1>4, NothingNames, RaisesAside, AfterAuthAside
       DEF SendsPassphrase, StillHere, deployVars, ServiceKept
<1>5. CASE BecomesWith(wizard, secret)
    BY <1>1, <1>5, AfterAuthAside DEF BecomesWith, become
<1> QED BY <1>2, <1>3, <1>4, <1>5

LEMMA PlainReplies ==
    ASSUME ServedTypes,
           PanelChosen \/ GotIp \/ GotLogin \/ GotSecretKey
              \/ HysPanelChosen \/ HysGotIp \/ HysGotLogin \/ HysManualZoneStart
    PROVE  Aside
<1>1. CASE HysManualZoneStart
    BY <1>1, NothingNames, ReplyAside DEF HysManualZoneStart
<1>2. CASE PanelChosen \/ HysPanelChosen
  <2>1. PICK p : Reply("ip", [panel_id |-> p])
      BY <1>2 DEF PanelChosen, HysPanelChosen, ChoosesPanel
  <2>2. NoProfile([panel_id |-> p])
      BY DEF NoProfile
  <2> QED BY <2>1, <2>2, ReplyAside
<1>3. CASE GotLogin \/ HysGotLogin
  <2>1. PICK login : Reply("auth", [login |-> login])
      BY <1>3 DEF GotLogin, HysGotLogin, GivesLogin
  <2>2. NoProfile([login |-> login])
      BY DEF NoProfile
  <2> QED BY <2>1, <2>2, ReplyAside
<1>4. CASE GotIp
  <2> DEFINE upd == [ips |-> {s \in Servers : s[1] = talk}]
  <2>1. NoProfile(upd) /\ Reply("login", upd)
      BY <1>4 DEF GotIp, NoProfile
  <2> QED BY <2>1, ReplyAside
<1>5. CASE HysGotIp
  <2> DEFINE upd == [ip |-> <<talk, 1>>]
  <2>1. NoProfile(upd) /\ Reply("login", upd)
      BY <1>5 DEF HysGotIp, NoProfile
  <2> QED BY <2>1, ReplyAside
<1>6. CASE GotSecretKey
  <2> DEFINE upd == [secret_key |-> talk]
  <2>1. NoProfile(upd) /\ Reply("port", upd)
      BY <1>6 DEF GotSecretKey, NoProfile
  <2> QED BY <2>1, ReplyAside
<1> QED BY <1>1, <1>2, <1>3, <1>4, <1>5, <1>6

LEMMA StableSteps == ASSUME ServedTypes, StableStep PROVE Aside /\ ServiceKept
<1>1. CASE PresetRemnanodeStable
    BY <1>1, EntersAside DEF PresetRemnanodeStable, StillHere, deployVars, ServiceKept
<1>2. CASE PanelChosen \/ GotIp \/ GotLogin \/ GotSecretKey
    BY <1>2, PlainReplies
       DEF PanelChosen, ChoosesPanel, GotIp, GotLogin, GivesLogin, GotSecretKey,
           StillHere, deployVars, ServiceKept
<1>3. CASE AuthGotKeyFile \/ AuthGotPassword \/ AuthGotPassphrase
              \/ RnBecomeNopass \/ RnBecomeSamePass \/ RnBecomeGotPass
    BY <1>3, AuthSteps
       DEF AuthGotKeyFile, AuthGotPassword, AuthGotPassphrase, RnBecomeNopass,
           RnBecomeSamePass, RnBecomeGotPass
<1>4. CASE GotPort
    BY <1>4, NothingNames, RunDeploymentAside DEF GotPort
<1>5. CASE ConfigProfileChosen
  <2>1. ServiceKept
      BY <1>5 DEF ConfigProfileChosen, StillHere, deployVars, ServiceKept
  <2>2. CASE \E p \in Profiles :
                Starts([kind |-> "register", servers |-> data["node_addresses"],
                        panel |-> data["panel_id"], profile |-> p], Nothing)
    <3>1. PICK p \in Profiles :
                  Starts([kind |-> "register", servers |-> data["node_addresses"],
                          panel |-> data["panel_id"], profile |-> p], Nothing)
        BY <2>2
    <3> DEFINE run == [kind |-> "register", servers |-> data["node_addresses"],
                       panel |-> data["panel_id"], profile |-> p]
    <3>2. Calm(run)
        BY DEF Calm, RunShape
    <3> HIDE DEF run
    <3> QED BY <2>1, <3>1, <3>2, StartsAside, NothingNames DEF run
  <2> QED BY <1>5, <2>1, <2>2, NothingNames, RaisesAside, DropAside DEF ConfigProfileChosen
<1> QED BY <1>1, <1>2, <1>3, <1>4, <1>5 DEF StableStep

LEMMA HysteriaSteps ==
    ASSUME ServedTypes, HysteriaStep, ~HysGotSubdomain
    PROVE  Aside /\ ServiceKept
<1>1. CASE PresetHysteriaTls
    BY <1>1, EntersAside DEF PresetHysteriaTls, StillHere, deployVars, ServiceKept
<1>2. CASE HysPanelChosen \/ HysGotIp \/ HysGotLogin \/ HysManualZoneStart
    BY <1>2, PlainReplies
       DEF HysPanelChosen, ChoosesPanel, HysGotIp, HysGotLogin, GivesLogin, HysManualZoneStart,
           StillHere, deployVars, ServiceKept
<1>3. CASE HysAuthGotKeyFile \/ HysAuthGotPassword \/ HysAuthGotPassphrase
              \/ HysBecomeNopass \/ HysBecomeSamePass \/ HysBecomeGotPass
    BY <1>3, AuthSteps
       DEF HysAuthGotKeyFile, HysAuthGotPassword, HysAuthGotPassphrase, HysBecomeNopass,
           HysBecomeSamePass, HysBecomeGotPass
<1>4. CASE HysProfileChosen
  <2>1. ASSUME NEW p \in Profiles,
               Starts(Lookup(<<"hysteria", "zone">>, [profile |-> p]), Nothing)
        PROVE  Aside
    <3>1. NamesProfile([profile |-> p])
        BY DEF NamesProfile
    <3> QED BY <2>1, <3>1, LookupAside
  <2> QED BY <1>4, <2>1, NothingNames, RaisesAside, DropAside
          DEF HysProfileChosen, StillHere, deployVars, ServiceKept
<1>5. CASE HysZoneSelected \/ HysGotManualZone
  <2>1. NamesProfile([zone |-> talk])
      BY DEF NamesProfile
  <2>2. Starts(Lookup(<<"hysteria", "subdomain">>, [zone |-> talk]), Nothing)
      BY <1>5 DEF HysZoneSelected, HysGotManualZone
  <2>3. Aside
      BY <2>1, <2>2, LookupAside
  <2> QED BY <1>5, <2>3 DEF HysZoneSelected, HysGotManualZone, StillHere, deployVars, ServiceKept
<1> QED BY <1>1, <1>2, <1>3, <1>4, <1>5 DEF HysteriaStep

\* The playbook, and then the profiles, of both presets.
LEMMA InstallRuns ==
    ASSUME ServedTypes, NEW i \in Slots,
           InstallPlaybooks(i) \/ InstallProfiles(i)
              \/ HysInstallPlaybook(i) \/ HysInstallProfiles(i)
    PROVE  Aside /\ ServiceKept
<1>1. ServiceKept
    BY DEF InstallPlaybooks, InstallProfiles, HysInstallPlaybook, HysInstallProfiles, StillHere,
           deployVars, ServiceKept
<1> SUFFICES Aside
    BY <1>1
<1>2. CASE InstallPlaybooks(i)
  <2>1. CASE EndsClearing(i)
      BY <2>1, EndsAside
  <2>2. ASSUME NEW ok, UNCHANGED <<fsm, data>>,
               runs' = [runs EXCEPT ![i].at = "profiles", ![i].servers = ok]
        PROVE  Aside
    <3> DEFINE run == [runs[i] EXCEPT !.at = "profiles", !.servers = ok]
    <3>1. runs' = [runs EXCEPT ![i] = run]
        BY <2>2 DEF ServedTypes
    <3>2. Calm(run)
        BY <1>2 DEF InstallPlaybooks, Calm, RunShape, ServedTypes
    <3>3. RunsKept
        BY <3>1, <3>2, PutKeeps
    <3> QED BY <2>2, <3>3 DEF Aside, DataKept, ServedTypes
  <2> QED BY <1>2, <2>1, <2>2 DEF InstallPlaybooks
<1>3. CASE InstallProfiles(i)
  <2>1. CASE Ends(i) /\ data' = [NoData EXCEPT !["panel_id"] = runs[i].panel,
                                              !["node_addresses"] = runs[i].servers]
    <3>1. DataKept
        BY <2>1 DEF DataKept, NoData, Keys
    <3> QED BY <2>1, <3>1, QuitsKeeps DEF Ends, Aside
  <2> QED BY <1>3, <2>1, EndsAside DEF InstallProfiles
<1>4. CASE HysInstallPlaybook(i)
    BY <1>4, EndsAside, GoesOnKeeps DEF HysInstallPlaybook
<1>5. CASE HysInstallProfiles(i)
  <2>1. CASE Ends(i) /\ UNCHANGED data
      BY <2>1, QuitsKeeps DEF Ends, Aside, DataKept, ServedTypes
  <2> QED BY <1>5, <2>1, EndsAside DEF HysInstallProfiles
<1> QED BY <1>2, <1>3, <1>4, <1>5

-----------------------------------------------------------------------------
(* The hosts wizard.                                                        *)

LEMMA AppliesAside ==
    ASSUME ServedTypes, NEW STATE handler, NEW STATE keys, NEW STATE how, NEW STATE promise,
           NEW STATE early, Applies(handler, keys, how, promise, early)
    PROVE  Aside
<1> DEFINE run == [kind |-> "apply", at |-> "list", tag |-> data["selected_tag"],
                   how |-> how, early |-> early, promise |-> promise, pairs |-> {}]
<1>1. CASE Raises(handler, Nothing) \/ Drop
    BY <1>1, NothingNames, RaisesAside, DropAside
<1>2. ASSUME NEW i \in Slots, runs' = [runs EXCEPT ![i] = run],
             Clear \/ UNCHANGED <<fsm, data>>
      PROVE  Aside
  <2>1. Calm(run)
      BY DEF Calm, RunShape
  <2> HIDE DEF run
  <2>2. RunsKept
      BY <1>2, <2>1, PutKeeps
  <2> QED BY <1>2, <2>2, ClearKeeps DEF Aside, DataKept, ServedTypes
<1> QED BY <1>1, <1>2 DEF Applies

LEMMA HostsReplies ==
    ASSUME ServedTypes,
           TagChosen \/ TopManual \/ TopIpsets
              \/ (\E source \in {"auto", "manual"} : SourceChosen(source))
              \/ (\E distribution \in {"same", "each"} : DistChosen(distribution))
    PROVE  Aside
<1>1. CASE TopManual \/ TopIpsets
    BY <1>1, NothingNames, ReplyAside, RaisesAside DEF TopManual, TopIpsets
<1>2. ASSUME NEW tag, Reply("mode", [selected_tag |-> tag]) PROVE Aside
  <2>1. NoProfile([selected_tag |-> tag])
      BY DEF NoProfile
  <2> QED BY <1>2, <2>1, ReplyAside
<1>3. CASE TagChosen
    BY <1>2, <1>3, NothingNames, RaisesAside DEF TagChosen
<1>4. ASSUME NEW source, SourceChosen(source) PROVE Aside
  <2>1. NoProfile([source |-> source])
      BY DEF NoProfile
  <2> QED BY <1>4, <2>1, ReplyAside DEF SourceChosen
<1>5. ASSUME NEW distribution, DistChosen(distribution) PROVE Aside
  <2>1. NoProfile([distribution |-> distribution])
      BY DEF NoProfile
  <2> QED BY <1>5, <2>1, ReplyAside DEF DistChosen
<1> QED BY <1>1, <1>3, <1>4, <1>5

LEMMA IpsetChosenAside == ASSUME ServedTypes, IpsetChosen PROVE Aside
<1>1. PICK set \in IpSets :
         \/ Raises("ipset_chosen", [set_id |-> set])
         \/ Reply("single", [set_id |-> set])
         \/ \E kind \in {"preview", "search"} :
               Starts([kind |-> kind, at |-> "list", tag |-> data["selected_tag"], set |-> set,
                       distribution |-> data["distribution"], targets |-> <<>>],
                      [set_id |-> set])
    BY DEF IpsetChosen
<1> DEFINE upd == [set_id |-> set]
<1>2. NoProfile(upd)
    BY DEF NoProfile
<1>3. ASSUME NEW kind \in {"preview", "search"},
             Starts([kind |-> kind, at |-> "list", tag |-> data["selected_tag"], set |-> set,
                     distribution |-> data["distribution"], targets |-> <<>>], upd)
      PROVE  Aside
  <2> DEFINE run == [kind |-> kind, at |-> "list", tag |-> data["selected_tag"], set |-> set,
                     distribution |-> data["distribution"], targets |-> <<>>]
  <2>1. Calm(run)
      BY DEF Calm, RunShape
  <2> HIDE DEF run, upd
  <2> QED BY <1>2, <1>3, <2>1, StartsAside DEF run
<1> QED BY <1>1, <1>2, <1>3, ReplyAside, RaisesAside

LEMMA HostsSteps == ASSUME ServedTypes, HostsStep \/ PanelRetags PROVE Aside
<1>1. CASE HostsMenu
    BY <1>1, EntersAside DEF HostsMenu
<1>2. CASE HostsPanelChosen
  <2>1. PICK p : Starts(Lookup(<<"hosts", "tag">>,
                               [panel_id |-> p, tags |-> {hostTag[h] : h \in Hosts}]), Nothing)
      BY <1>2 DEF HostsPanelChosen
  <2> DEFINE upd == [panel_id |-> p, tags |-> {hostTag[h] : h \in Hosts}]
  <2>2. NamesProfile(upd)
      BY DEF NamesProfile
  <2> HIDE DEF upd
  <2> QED BY <2>1, <2>2, LookupAside DEF upd
<1>3. CASE GotAddress
    BY <1>3, AppliesAside DEF GotAddress
<1>4. CASE IpSelected
    BY <1>4, AppliesAside DEF IpSelected
<1>5. CASE ManualBulkConfirm
    BY <1>5, AppliesAside DEF ManualBulkConfirm
<1>6. CASE AutoConfirm
    BY <1>6, AppliesAside DEF AutoConfirm
<1>7. CASE HostsBack
    BY <1>7, NothingNames, DropAside, ReplyAside, RunsUnchanged
       DEF HostsBack, Aside, DataKept, ServedTypes
<1>8. CASE PanelRetags
    BY <1>8, RunsUnchanged DEF PanelRetags, Aside, DataKept, ServedTypes
<1> QED BY <1>1, <1>2, <1>3, <1>4, <1>5, <1>6, <1>7, <1>8, HostsReplies, IpsetChosenAside
        DEF HostsStep

LEMMA HostsRuns == ASSUME ServedTypes, NEW i \in Slots, HostsRun(i) PROVE Aside
<1>1. CASE ApplyLists(i)
  <2>1. CASE Fails(i) /\ UNCHANGED <<fsm, data>>
      BY <2>1, QuitsKeeps DEF Fails, Aside, DataKept, ServedTypes
  <2>2. ASSUME NEW pairs, Clear \/ UNCHANGED <<fsm, data>>,
               runs' = [runs EXCEPT ![i].at = "patch", ![i].pairs = pairs]
        PROVE  Aside
    <3> DEFINE run == [runs[i] EXCEPT !.at = "patch", !.pairs = pairs]
    <3>1. runs' = [runs EXCEPT ![i] = run]
        BY <2>2 DEF ServedTypes
    <3>2. Calm(run)
        BY <1>1 DEF ApplyLists, Calm, RunShape, ServedTypes
    <3>3. RunsKept
        BY <3>1, <3>2, PutKeeps
    <3> QED BY <2>2, <3>3, ClearKeeps DEF Aside, DataKept, ServedTypes
  <2>3. \/ Refused(i) \/ Breaks(i) \/ (Fails(i) /\ UNCHANGED <<fsm, data>>)
        \/ /\ Clear \/ UNCHANGED <<fsm, data>>
           /\ runs' = [runs EXCEPT ![i].at = "patch",
                                   ![i].pairs = Pairs(runs[i].how, Targets(runs[i].tag))]
      BY <1>1 DEF ApplyLists
  <2> QED BY <2>1, <2>2, <2>3, EndsAside
<1>2. CASE ApplyPatches(i)
  <2>1. Quits(i) \/ runs' = [runs EXCEPT ![i] = NoRun]
      BY <1>2 DEF ApplyPatches, Ends, Fails
  <2>2. Calm(NoRun)
      BY DEF Calm, RunShape, NoRun
  <2>3. RunsKept
      BY <2>1, <2>2, PutKeeps, QuitsKeeps
  <2> QED BY <1>2, <2>3 DEF ApplyPatches, Aside, DataKept, ServedTypes
<1>3. CASE ManualBulkPreview(i)
  <2>1. RunsKept /\ UNCHANGED data
      BY <1>3, QuitsKeeps DEF ManualBulkPreview, Ends, Breaks, Fails
  <2> QED BY <2>1 DEF Aside, DataKept, ServedTypes
<1>4. CASE SearchLists(i)
  <2>1. CASE Ends(i) /\ UNCHANGED data
      BY <2>1, QuitsKeeps DEF Ends, Aside, DataKept, ServedTypes
  <2>2. ASSUME NEW targets, UNCHANGED data,
               runs' = [runs EXCEPT ![i].at = "find", ![i].targets = targets]
        PROVE  Aside
    <3> DEFINE run == [runs[i] EXCEPT !.at = "find", !.targets = targets]
    <3>1. runs' = [runs EXCEPT ![i] = run]
        BY <2>2 DEF ServedTypes
    <3>2. Calm(run)
        BY <1>4 DEF SearchLists, Calm, RunShape, ServedTypes
    <3>3. RunsKept
        BY <3>1, <3>2, PutKeeps
    <3> QED BY <2>2, <3>3 DEF Aside, DataKept, ServedTypes
  <2>3. \/ Breaks(i) \/ (Ends(i) /\ UNCHANGED data)
        \/ /\ UNCHANGED data
           /\ runs' = [runs EXCEPT ![i].at = "find", ![i].targets = Targets(runs[i].tag)]
      BY <1>4 DEF SearchLists
  <2> QED BY <2>1, <2>2, <2>3, EndsAside
<1>5. CASE SearchEnds(i)
  <2>1. RunsKept
      BY <1>5, QuitsKeeps DEF SearchEnds, Ends
  <2>2. ASSUME NEW upd, NoProfile(upd), data' = Update(upd) PROVE DataKept
      BY <2>2, UpdateKept, NoProfileNames
  <2>3. ASSUME NEW good PROVE NoProfile([auto_ip |-> good]) /\ NoProfile([auto_each_ips |-> good])
      BY DEF NoProfile
  <2>4. DataKept
    <3>1. CASE UNCHANGED data
        BY <3>1 DEF DataKept, ServedTypes
    <3>2. CASE \E good : data' = Update(IF runs[i].distribution = "same" THEN [auto_ip |-> good[1]]
                                        ELSE [auto_each_ips |-> good])
        BY <3>2, <2>2, <2>3
    <3> QED BY <1>5, <3>1, <3>2 DEF SearchEnds
  <2> QED BY <2>1, <2>4 DEF Aside
<1> QED BY <1>1, <1>2, <1>3, <1>4, <1>5 DEF HostsRun

-----------------------------------------------------------------------------
(* The pipeline.                                                            *)

\* What a pipeline made stays, or another pipeline takes it over.
Improves ==
    /\ \A q : q.domain \in Domains /\ DomainLeads(q) => DomainLeads(q)'
    /\ \A q : q.profile \in Profiles /\ ProfileServes(q) => ProfileServes(q)'
    /\ certs \subseteq certs' /\ pipelines \subseteq pipelines'

LEMMA SameImproves ==
    ASSUME UNCHANGED <<dns, certPath>>, certs \subseteq certs', pipelines \subseteq pipelines'
    PROVE  Improves
BY DEF Improves, DomainLeads, ProfileServes, OtherPipelines

Holds(records, server) == \E k \in DOMAIN records : records[k] = server

LEMMA Recorded ==
    ASSUME NEW S, NEW records \in Seq(S), NEW server \in S
    PROVE  /\ Append(records, server) \in Seq(S) /\ Holds(Append(records, server), server)
           /\ records # <<>> => /\ [records EXCEPT ![1] = server] \in Seq(S)
                               /\ Holds([records EXCEPT ![1] = server], server)
<1>1. Append(records, server) \in Seq(S) /\ Holds(Append(records, server), server)
  <2>1. /\ Append(records, server) \in Seq(S)
        /\ Len(Append(records, server)) = Len(records) + 1
        /\ Append(records, server)[Len(records) + 1] = server
      BY AppendProperties
  <2>2. Len(records) + 1 \in DOMAIN Append(records, server)
      BY <2>1, LenProperties
  <2> QED BY <2>1, <2>2 DEF Holds
<1>2. ASSUME records # <<>>
      PROVE  /\ [records EXCEPT ![1] = server] \in Seq(S)
             /\ Holds([records EXCEPT ![1] = server], server)
  <2>1. 1 \in 1..Len(records)
      BY <1>2, EmptySeq, LenProperties
  <2>2. /\ [records EXCEPT ![1] = server] \in Seq(S)
        /\ Len([records EXCEPT ![1] = server]) = Len(records)
        /\ [records EXCEPT ![1] = server][1] = server
      BY <2>1, ExceptSeq
  <2>3. 1 \in DOMAIN [records EXCEPT ![1] = server]
      BY <2>1, <2>2, LenProperties
  <2> QED BY <2>2, <2>3 DEF Holds
<1> QED BY <1>1, <1>2

LEMMA DnsImproves ==
    ASSUME ServedTypes, NEW m \in pipelines, NEW puts \in {"first", "last"},
           puts = "first" => dns[m.domain] # <<>>,
           dns' = IF puts = "first" THEN [dns EXCEPT ![m.domain][1] = m.server]
                  ELSE [dns EXCEPT ![m.domain] = Append(@, m.server)],
           UNCHANGED <<certPath, certs, pipelines>>
    PROVE  /\ Improves /\ DomainLeads(m)'
           /\ dns' \in [Domains -> Seq(Begun)] /\ Holds(dns'[m.domain], m.server)
<1> DEFINE records == dns[m.domain]
<1>1. m.domain \in Domains /\ records \in Seq(Begun) /\ m.server \in Begun /\ IsRun(m)
    BY DEF ServedTypes, IsRun, Begun
<1>2. dns'[m.domain] \in Seq(Begun) /\ Holds(dns'[m.domain], m.server)
  <2>1. CASE puts = "last"
    <3>1. dns'[m.domain] = Append(records, m.server)
        BY <1>1, <2>1 DEF ServedTypes
    <3> QED BY <1>1, <3>1, Recorded
  <2>2. CASE puts = "first"
    <3>1. dns'[m.domain] = [records EXCEPT ![1] = m.server]
        BY <1>1, <2>2 DEF ServedTypes
    <3>2. records # <<>>
        BY <2>2
    <3>3. /\ [records EXCEPT ![1] = m.server] \in Seq(Begun)
          /\ Holds([records EXCEPT ![1] = m.server], m.server)
      <4> HIDE DEF records
      <4> QED BY <1>1, <3>2, Recorded, Zenon
    <3> QED BY <3>1, <3>3, Zenon
  <2> QED BY <2>1, <2>2
<1>3. \A d \in Domains \ {m.domain} : dns'[d] = dns[d]
    BY DEF ServedTypes
<1>4. dns' \in [Domains -> Seq(Begun)]
    BY <1>1, <1>2, <1>3 DEF ServedTypes
<1>5. DomainLeads(m)'
    BY <1>2 DEF DomainLeads, Holds
<1>6. ASSUME NEW q, q.domain \in Domains, DomainLeads(q) PROVE DomainLeads(q)'
  <2>1. CASE q.domain # m.domain
      BY <1>3, <1>6, <2>1 DEF DomainLeads, OtherPipelines
  <2>2. CASE q.domain = m.domain /\ m = [server |-> q.server, domain |-> q.domain,
                                         profile |-> q.profile]
      BY <1>2, <2>2 DEF DomainLeads, Holds
  <2>3. CASE q.domain = m.domain /\ m # [server |-> q.server, domain |-> q.domain,
                                         profile |-> q.profile]
      BY <2>3 DEF DomainLeads, OtherPipelines
  <2> QED BY <2>1, <2>2, <2>3
<1>7. ASSUME NEW q, ProfileServes(q) PROVE ProfileServes(q)'
    BY <1>7 DEF ProfileServes, OtherPipelines
<1> QED BY <1>2, <1>4, <1>5, <1>6, <1>7 DEF Improves

LEMMA PathImproves ==
    ASSUME ServedTypes, NEW m \in pipelines,
           certPath' = [certPath EXCEPT ![m.profile] = m.domain],
           UNCHANGED <<dns, certs, pipelines>>
    PROVE  Improves /\ ProfileServes(m)' /\ certPath' \in [Profiles -> Domains \cup {Nil}]
<1>1. m.profile \in Profiles /\ m.domain \in Domains /\ IsRun(m)
    BY DEF ServedTypes, IsRun
<1>2. \A p \in Profiles : certPath'[p] = IF p = m.profile THEN m.domain ELSE certPath[p]
    BY DEF ServedTypes
<1>3. ProfileServes(m)'
    BY <1>1, <1>2 DEF ProfileServes
<1>4. ASSUME NEW q, q.profile \in Profiles, ProfileServes(q) PROVE ProfileServes(q)'
  <2>1. CASE q.profile # m.profile
      BY <1>2, <1>4, <2>1 DEF ProfileServes, OtherPipelines
  <2>2. CASE q.profile = m.profile /\ m = [server |-> q.server, domain |-> q.domain,
                                           profile |-> q.profile]
      BY <1>1, <1>2, <2>2 DEF ProfileServes
  <2>3. CASE q.profile = m.profile /\ m # [server |-> q.server, domain |-> q.domain,
                                           profile |-> q.profile]
      BY <1>1, <1>2, <2>3 DEF ProfileServes, OtherPipelines
  <2> QED BY <2>1, <2>2, <2>3
<1>5. ASSUME NEW q, DomainLeads(q) PROVE DomainLeads(q)'
    BY <1>5 DEF DomainLeads, OtherPipelines
<1>6. certPath' \in [Profiles -> Domains \cup {Nil}]
    BY <1>1 DEF ServedTypes
<1> QED BY <1>3, <1>4, <1>5, <1>6 DEF Improves

\* What the point of a run is worth to its domain, server and profile m.
Earned(r, m) ==
    /\ r.at = "dns_put" /\ r.found => dns[m.domain] # <<>>
    /\ r.at \in {"cert", "profile", "node"} => DomainLeads(m)
    /\ r.at \in {"profile", "node"} => <<m.server, m.domain>> \in certs
    /\ r.at = "node" => ProfileServes(m)

RecordsStay == \A d \in Domains : dns[d] # <<>> => dns'[d] # <<>>

Served(n) == <<n.server, n.domain>> \in certs /\ ProfileServes(n) /\ DomainLeads(n)

\* The frame of every step of a pipeline: it improves what is there, and its run
\* ends or goes on with what it has earned.
LEMMA PipelineStep ==
    ASSUME ServedInv, NEW i \in Slots, runs[i].kind = "pipeline",
           NEW m \in pipelines, m = runs[i].of,
           ServedTypes', Improves, RecordsStay, UNCHANGED pipelines,
           \A j \in Slots \ {i} : runs'[j] = runs[j],
           runs'[i].kind = "pipeline" => runs'[i].of = m /\ Earned(runs[i], m)',
           PathIsCertified',
           \A n \in nodes' \ nodes : n.preset = "hysteria" => Served(n)'
    PROVE  ServedInv'
<1> DEFINE lead == {"cert", "profile", "node"}
           cert == {"profile", "node"}
<1>1. \A j \in Slots : runs'[j].kind = "pipeline" => runs'[j].of \in pipelines'
    BY DEF ServedInv
<1>2. \A j \in Slots : runs'[j].kind = "pipeline" /\ runs'[j].at = "dns_put" /\ runs'[j].found
                          => dns'[runs'[j].of.domain] # <<>>
  <2>1. ASSUME NEW j \in Slots \ {i}, runs[j].kind = "pipeline", runs[j].at = "dns_put",
               runs[j].found
        PROVE  dns'[runs[j].of.domain] # <<>>
    <3>1. runs[j].of.domain \in Domains /\ dns[runs[j].of.domain] # <<>>
        BY <2>1 DEF ServedInv, ServedTypes, IsRun
    <3> QED BY <3>1 DEF RecordsStay
  <2> QED BY <2>1 DEF Earned
<1>3. ASSUME NEW q \in pipelines, NEW points, Reached(q, points)'
      PROVE  \/ Reached(q, points)
             \/ q = m /\ runs'[i].kind = "pipeline" /\ runs'[i].at \in points
    BY <1>3 DEF Reached
<1>4. \A q \in pipelines : q.domain \in Domains /\ q.profile \in Profiles
    BY DEF ServedInv, ServedTypes, IsRun
<1>5. ASSUME NEW q \in pipelines, Reached(q, lead)' PROVE DomainLeads(q)'
  <2>1. CASE Reached(q, lead)
      BY <1>4, <2>1 DEF ServedInv, Improves
  <2>2. CASE q = m /\ runs'[i].kind = "pipeline" /\ runs'[i].at \in lead
      BY <2>2 DEF Earned
  <2> QED BY <1>3, <1>5, <2>1, <2>2
<1>6. ASSUME NEW q \in pipelines, Reached(q, cert)' PROVE <<q.server, q.domain>> \in certs'
  <2>1. CASE Reached(q, cert)
      BY <2>1 DEF ServedInv, Improves
  <2>2. CASE q = m /\ runs'[i].kind = "pipeline" /\ runs'[i].at \in cert
      BY <2>2 DEF Earned
  <2> QED BY <1>3, <1>6, <2>1, <2>2
<1>7. ASSUME NEW q \in pipelines, Reached(q, {"node"})' PROVE ProfileServes(q)'
  <2>1. CASE Reached(q, {"node"})
      BY <1>4, <2>1 DEF ServedInv, Improves
  <2>2. CASE q = m /\ runs'[i].kind = "pipeline" /\ runs'[i].at \in {"node"}
      BY <2>2 DEF Earned
  <2> QED BY <1>3, <1>7, <2>1, <2>2
<1>8. ASSUME NEW n \in nodes', n.preset = "hysteria" PROVE Served(n)'
  <2>1. CASE n \in nodes
    <3>1. n.domain \in Domains /\ n.profile \in Profiles
        BY <1>8, <2>1 DEF ServedInv, ServedTypes
    <3>2. Served(n)
        BY <1>8, <2>1 DEF ServedInv, HysteriaNodeServed, Served
    <3> QED BY <3>1, <3>2 DEF Improves, Served
  <2> QED BY <1>8, <2>1
<1>9. HysteriaNodeServed'
    BY <1>8 DEF HysteriaNodeServed, Served
<1> QED BY <1>1, <1>2, <1>5, <1>6, <1>7, <1>9 DEF ServedInv

\* What a step of a pipeline leaves typed, whatever becomes of its run.
ServiceTyped ==
    /\ DataKept /\ UNCHANGED pipelines
    /\ dns' \in [Domains -> Seq(Begun)]
    /\ certPath' \in [Profiles -> Domains \cup {Nil}]
    /\ \A n \in nodes' \ nodes :
          n.preset = "hysteria" => n.domain \in Domains /\ n.profile \in Profiles

LEMMA TypesKept ==
    ASSUME ServedTypes, ServiceTyped, NEW i \in Slots, NEW STATE run, RunShape(run),
           runs' = [runs EXCEPT ![i] = run]
    PROVE  /\ ServedTypes'
           /\ runs'[i] = run /\ \A j \in Slots \ {i} : runs'[j] = runs[j]
<1>1. runs' = [j \in Slots |-> runs'[j]]
    BY DEF ServedTypes
<1>2. runs'[i] = run /\ \A j \in Slots \ {i} : runs'[j] = runs[j]
    BY DEF ServedTypes
<1>3. \A j \in Slots : RunShape(runs'[j])
    BY <1>2 DEF ServedTypes
<1>4. \A n \in nodes' : n.preset = "hysteria" => n.domain \in Domains /\ n.profile \in Profiles
    BY DEF ServedTypes, ServiceTyped
<1>5. \A j \in Slots : RunShape(runs[j])'
    BY <1>3 DEF RunShape, NamesProfile
<1> QED BY <1>1, <1>2, <1>4, <1>5 DEF ServedTypes, ServiceTyped, DataKept, Begun, IsRun

LEMMA PipelineEnds ==
    ASSUME ServedInv, NEW i \in Slots, runs[i].kind = "pipeline",
           runs' = [runs EXCEPT ![i] = NoRun],
           ServiceTyped, Improves, RecordsStay, PathIsCertified',
           \A n \in nodes' \ nodes : n.preset = "hysteria" => Served(n)'
    PROVE  ServedInv'
<1>1. RunShape(NoRun) /\ NoRun.kind # "pipeline"
    BY DEF RunShape, NoRun
<1>2. ServedTypes' /\ runs'[i] = NoRun /\ \A j \in Slots \ {i} : runs'[j] = runs[j]
    BY <1>1, TypesKept DEF ServedInv
<1>3. PICK m \in pipelines : m = runs[i].of
    BY DEF ServedInv
<1> QED BY <1>1, <1>2, <1>3, PipelineStep DEF ServiceTyped

LEMMA PipelineGoes ==
    ASSUME ServedInv, NEW i \in Slots, runs[i].kind = "pipeline", NEW m \in pipelines,
           m = runs[i].of, NEW to \in {"cert", "profile", "node"}, GoesOn(i, to), UNCHANGED nodes,
           ServiceTyped, Improves, RecordsStay, PathIsCertified',
           DomainLeads(m)',
           to # "cert" => <<m.server, m.domain>> \in certs',
           to = "node" => ProfileServes(m)'
    PROVE  ServedInv'
<1> DEFINE run == [runs[i] EXCEPT !.at = to]
<1>1. runs' = [runs EXCEPT ![i] = run]
    BY DEF GoesOn
<1>2. RunShape(run) /\ run.of = m /\ run.at = to /\ run.kind = "pipeline"
    BY DEF RunShape, ServedInv, ServedTypes
<1> HIDE DEF run
<1>3. ServedTypes' /\ runs'[i] = run /\ \A j \in Slots \ {i} : runs'[j] = runs[j]
    BY <1>1, <1>2, TypesKept DEF ServedInv
<1>4. Earned(runs[i], m)'
    BY <1>2, <1>3 DEF Earned
<1> QED BY <1>2, <1>3, <1>4, PipelineStep DEF ServiceTyped

LEMMA PipelineBreaks ==
    ASSUME ServedInv, NEW i \in Slots,
           EndsClearing(i) \/ Refused(i) \/ Breaks(i)
    PROVE  runs' = [runs EXCEPT ![i] = NoRun] /\ DataKept
BY EndsAside DEF Aside, ServedInv, EndsClearing, Ends, Refused, Breaks, Fails, Quits

LEMMA QuietEnd ==
    ASSUME ServedInv, NEW i \in Slots, ServiceKept,
           runs' = [runs EXCEPT ![i] = NoRun], DataKept
    PROVE  ServedInv'
<1>1. Calm(NoRun)
    BY DEF Calm, RunShape, NoRun
<1>2. RunsKept
    BY <1>1, PutKeeps DEF ServedInv
<1> QED BY <1>2, Bystander

LEMMA ServiceStays == ASSUME ServedInv, ServiceKept, DataKept PROVE
    ServiceTyped /\ Improves /\ RecordsStay /\ PathIsCertified'
BY SameImproves
   DEF ServiceKept, ServiceTyped, ServedInv, ServedTypes, RecordsStay, HysteriaNodeServed,
       PathIsCertified, Begun

LEMMA SubdomainStep == ASSUME ServedInv, HysGotSubdomain PROVE ServedInv'
<1>1. CASE UNCHANGED pipelines /\ (Raises("hys_got_subdomain", Nothing) \/ Drop)
  <2>1. ServiceKept
      BY <1>1 DEF HysGotSubdomain, ServiceKept
  <2> QED BY <1>1, <2>1, NothingNames, RaisesAside, DropAside, Bystander DEF ServedInv, Aside
<1>2. CASE /\ ~Lacks({"zone", "ip", "panel_id", "profile"})
           /\ \E domain \in Domains :
                 LET run == [server |-> data["ip"], domain |-> domain,
                             profile |-> data["profile"]]
                 IN  /\ Starts([kind |-> "pipeline", at |-> "dns_get", of |-> run,
                                panel |-> data["panel_id"], login |-> data["login"],
                                foreign |-> Foreign(data["ip"], data),
                                found |-> FALSE], Nothing)
                     /\ pipelines' = pipelines \cup {run}
  <2>1. PICK domain \in Domains, i \in Slots :
           \E panel, login, foreign :
              LET m == [server |-> data["ip"], domain |-> domain, profile |-> data["profile"]]
              IN  /\ pipelines' = pipelines \cup {m}
                  /\ runs' = [runs EXCEPT ![i] =
                        [kind |-> "pipeline", at |-> "dns_get", of |-> m, panel |-> panel,
                         login |-> login, foreign |-> foreign, found |-> FALSE]]
                  /\ data' = Update(Nothing)
      BY <1>2 DEF Starts
  <2>2. DataKept
      BY <2>1, NothingNames, UpdateKept DEF ServedInv
  <2> DEFINE m == [server |-> data["ip"], domain |-> domain, profile |-> data["profile"]]
  <2>3. PICK panel, login, foreign :
           /\ pipelines' = pipelines \cup {m}
           /\ runs' = [runs EXCEPT ![i] =
                 [kind |-> "pipeline", at |-> "dns_get", of |-> m, panel |-> panel,
                  login |-> login, foreign |-> foreign, found |-> FALSE]]
      BY <2>1
  <2> DEFINE run == [kind |-> "pipeline", at |-> "dns_get", of |-> m, panel |-> panel,
                     login |-> login, foreign |-> foreign, found |-> FALSE]
  <2>4. IsRun(m)
      BY <1>2 DEF Lacks, IsRun, ServedInv, ServedTypes
  <2>5. RunShape(run) /\ run.kind = "pipeline" /\ run.of = m /\ run.at = "dns_get"
      BY DEF RunShape
  <2>6. pipelines' = pipelines \cup {m}
      BY <2>3
  <2>7. runs' = [runs EXCEPT ![i] = run]
      BY <2>3
  <2> HIDE DEF run, m
  <2>8. runs'[i] = run /\ \A j \in Slots \ {i} : runs'[j] = runs[j]
      BY <2>7 DEF ServedInv, ServedTypes
  <2>9. UNCHANGED <<dns, certs, certPath, nodes>>
      BY DEF HysGotSubdomain
  <2>10. Improves
      BY <2>6, <2>9, SameImproves
  <2>11. ServedTypes'
    <3>1. runs' = [j \in Slots |-> runs'[j]] /\ \A j \in Slots : RunShape(runs[j])'
        BY <2>5, <2>7, <2>8 DEF ServedInv, ServedTypes, RunShape, NamesProfile
    <3>2. dns' \in [Domains -> Seq(Begun)']
      <4>1. Begun \subseteq Begun'
          BY <2>6 DEF Begun
      <4>2. Seq(Begun) \subseteq Seq(Begun')
        <5>1. \A s \in Seq(Begun) : s \in [1..Len(s) -> Begun'] /\ Len(s) \in Nat
            BY <4>1, LenProperties
        <5> QED BY <5>1
      <4> QED BY <2>9, <4>2 DEF ServedInv, ServedTypes
    <3>3. \A q \in pipelines' : IsRun(q)
        BY <2>4, <2>6 DEF ServedInv, ServedTypes
    <3> QED BY <2>2, <2>9, <3>1, <3>2, <3>3 DEF ServedInv, ServedTypes, DataKept, IsRun
  <2>12. ASSUME NEW q, NEW points \in SUBSET {"cert", "profile", "node"}, Reached(q, points)'
         PROVE  Reached(q, points) /\ q \in pipelines
      BY <2>5, <2>8, <2>12 DEF Reached, ServedInv
  <2>13. \A j \in Slots : runs'[j].kind = "pipeline" => runs'[j].of \in pipelines'
      BY <2>5, <2>6, <2>8 DEF ServedInv
  <2>14. \A j \in Slots : runs'[j].kind = "pipeline" /\ runs'[j].at = "dns_put" /\ runs'[j].found
                             => dns'[runs'[j].of.domain] # <<>>
      BY <2>5, <2>8, <2>9 DEF ServedInv
  <2>15. \A q \in pipelines : q.domain \in Domains /\ q.profile \in Profiles
      BY DEF ServedInv, ServedTypes, IsRun
  <2>16. \A q \in pipelines' : Reached(q, {"cert", "profile", "node"})' => DomainLeads(q)'
      BY <2>10, <2>12, <2>15 DEF ServedInv, Improves
  <2>17. \A q \in pipelines' : Reached(q, {"profile", "node"})'
                                 => <<q.server, q.domain>> \in certs'
      BY <2>9, <2>12 DEF ServedInv
  <2>18. \A q \in pipelines' : Reached(q, {"node"})' => ProfileServes(q)'
      BY <2>10, <2>12, <2>15 DEF ServedInv, Improves
  <2>19. HysteriaNodeServed'
      BY <2>9, <2>10 DEF ServedInv, ServedTypes, HysteriaNodeServed, PathIsCertified, Improves
  <2> QED BY <2>11, <2>13, <2>14, <2>16, <2>17, <2>18, <2>19 DEF ServedInv
<1> QED BY <1>1, <1>2 DEF HysGotSubdomain

LEMMA DnsGetStep == ASSUME ServedInv, NEW i \in Slots, PipelineDnsGet(i) PROVE ServedInv'
<1>1. runs[i].kind = "pipeline" /\ ServiceKept
    BY DEF PipelineDnsGet, InPipeline, StillHere, deployVars, ServiceKept
<1>2. CASE Refused(i) \/ Breaks(i)
    BY <1>1, <1>2, PipelineBreaks, QuietEnd
<1>3. ASSUME NEW found, found = (dns[runs[i].of.domain] # <<>>), UNCHANGED data,
             runs' = [runs EXCEPT ![i].at = "dns_put", ![i].found = found]
      PROVE  ServedInv'
  <2> DEFINE run == [runs[i] EXCEPT !.at = "dns_put", !.found = found]
  <2>1. PICK m \in pipelines : m = runs[i].of
      BY <1>1 DEF ServedInv
  <2>2. runs' = [runs EXCEPT ![i] = run]
      BY <1>3 DEF ServedInv, ServedTypes
  <2>3. RunShape(run) /\ run.of = m /\ run.at = "dns_put" /\ run.found = found
      BY <1>1, <2>1 DEF RunShape, ServedInv, ServedTypes
  <2> HIDE DEF run
  <2>4. DataKept
      BY <1>3 DEF DataKept, ServedInv, ServedTypes
  <2>5. ServedTypes' /\ runs'[i] = run /\ \A j \in Slots \ {i} : runs'[j] = runs[j]
      BY <1>1, <2>2, <2>3, <2>4, ServiceStays, TypesKept DEF ServedInv
  <2>6. Earned(runs[i], m)'
    <3>1. runs'[i].found => dns'[m.domain] # <<>>
        BY <1>1, <1>3, <2>1, <2>3, <2>5 DEF ServiceKept
    <3> QED BY <2>3, <2>5, <3>1 DEF Earned
  <2> QED BY <1>1, <2>1, <2>3, <2>4, <2>5, <2>6, ServiceStays, PipelineStep DEF ServiceKept
<1> QED BY <1>2, <1>3 DEF PipelineDnsGet

LEMMA DnsPutStep == ASSUME ServedInv, NEW i \in Slots, PipelineDnsPut(i) PROVE ServedInv'
<1>1. PICK m \in pipelines : m = runs[i].of
    BY DEF PipelineDnsPut, InPipeline, ServedInv
<1> DEFINE puts == IF runs[i].found THEN "first" ELSE "last"
           put == IF puts = "first" THEN [dns EXCEPT ![m.domain][1] = m.server]
                  ELSE [dns EXCEPT ![m.domain] = Append(@, m.server)]
<1>2. puts \in {"first", "last"} /\ (puts = "first" => dns[m.domain] # <<>>)
    BY <1>1 DEF PipelineDnsPut, InPipeline, ServedInv
<1>3. /\ runs[i].kind = "pipeline" /\ UNCHANGED <<certs, certPath, nodes, pipelines>>
      /\ \/ Refused(i) /\ UNCHANGED dns
         \/ Breaks(i) /\ dns' \in {dns, put}
         \/ GoesOn(i, "cert") /\ dns' = put
    BY <1>1 DEF PipelineDnsPut, InPipeline
<1> HIDE DEF puts
<1>4. CASE (Refused(i) \/ Breaks(i)) /\ UNCHANGED dns
    BY <1>3, <1>4, PipelineBreaks, QuietEnd DEF ServiceKept
<1>5. ASSUME dns' = put, DataKept
      PROVE  ServiceTyped /\ Improves /\ DomainLeads(m)' /\ RecordsStay /\ PathIsCertified'
  <2>1. /\ Improves /\ DomainLeads(m)'
        /\ dns' \in [Domains -> Seq(Begun)] /\ Holds(dns'[m.domain], m.server)
      BY <1>2, <1>3, <1>5, DnsImproves DEF ServedInv
  <2>2. RecordsStay
    <3>1. \A d \in Domains \ {m.domain} : dns'[d] = dns[d]
        BY <1>5 DEF ServedInv, ServedTypes
    <3>2. dns'[m.domain] # <<>>
        BY <2>1 DEF Holds
    <3> QED BY <3>1, <3>2 DEF RecordsStay
  <2> QED BY <1>3, <1>5, <2>1, <2>2
          DEF ServiceTyped, ServedInv, ServedTypes, HysteriaNodeServed, PathIsCertified
<1>6. CASE Breaks(i) /\ dns' = put
    BY <1>3, <1>5, <1>6, PipelineBreaks, PipelineEnds
<1>7. CASE GoesOn(i, "cert") /\ dns' = put
  <2>1. DataKept
      BY <1>7 DEF GoesOn, DataKept, ServedInv, ServedTypes
  <2> QED BY <1>1, <1>3, <1>5, <1>7, <2>1, PipelineGoes
<1> QED BY <1>3, <1>4, <1>6, <1>7

LEMMA CertStep == ASSUME ServedInv, NEW i \in Slots, PipelineCert(i) PROVE ServedInv'
<1>1. PICK m \in pipelines : m = runs[i].of
    BY DEF PipelineCert, InPipeline, ServedInv
<1> DEFINE issued == certs \cup {<<m.server, m.domain>>}
<1>2. /\ runs[i].kind = "pipeline" /\ runs[i].at = "cert"
      /\ UNCHANGED <<dns, certPath, nodes, pipelines>>
      /\ \/ runs' = [runs EXCEPT ![i] = NoRun] /\ UNCHANGED <<data, certs>>
         \/ Refused(i) /\ certs' \in {certs, issued}
         \/ GoesOn(i, "profile") /\ certs' = issued
    BY <1>1 DEF PipelineCert, InPipeline
<1>3. certs' \in {certs, issued}
    BY <1>2
<1>4. Improves /\ RecordsStay /\ PathIsCertified'
  <2>1. certs \subseteq certs'
      BY <1>3
  <2> QED BY <1>2, <2>1, SameImproves
          DEF RecordsStay, ServedInv, HysteriaNodeServed, PathIsCertified
<1>5. DomainLeads(m)'
  <2>1. DomainLeads(m)
      BY <1>1, <1>2 DEF ServedInv, Reached
  <2> QED BY <1>2, <2>1 DEF DomainLeads, OtherPipelines
<1>6. DataKept => ServiceTyped
    BY <1>2 DEF ServiceTyped, ServedInv, ServedTypes, Begun
<1>7. CASE runs' = [runs EXCEPT ![i] = NoRun] /\ UNCHANGED data
  <2>1. DataKept
      BY <1>7 DEF DataKept, ServedInv, ServedTypes
  <2> QED BY <1>2, <1>4, <1>6, <1>7, <2>1, PipelineEnds
<1>8. CASE Refused(i)
    BY <1>2, <1>4, <1>6, <1>8, PipelineBreaks, PipelineEnds
<1>9. CASE GoesOn(i, "profile") /\ certs' = issued
  <2>1. DataKept
      BY <1>9 DEF GoesOn, DataKept, ServedInv, ServedTypes
  <2> QED BY <1>1, <1>2, <1>4, <1>5, <1>6, <1>9, <2>1, PipelineGoes
<1> QED BY <1>2, <1>7, <1>8, <1>9

LEMMA ProfileStep == ASSUME ServedInv, NEW i \in Slots, PipelineProfile(i) PROVE ServedInv'
<1>1. PICK m \in pipelines : m = runs[i].of
    BY DEF PipelineProfile, InPipeline, ServedInv
<1> DEFINE injected == [certPath EXCEPT ![m.profile] = m.domain]
<1>2. /\ runs[i].kind = "pipeline" /\ runs[i].at = "profile"
      /\ UNCHANGED <<dns, certs, nodes, pipelines>>
      /\ \/ Refused(i) /\ UNCHANGED certPath
         \/ Breaks(i) /\ certPath' \in {certPath, injected}
         \/ GoesOn(i, "node") /\ certPath' = injected
    BY <1>1 DEF PipelineProfile, InPipeline
<1>3. CASE (Refused(i) \/ Breaks(i)) /\ UNCHANGED certPath
    BY <1>2, <1>3, PipelineBreaks, QuietEnd DEF ServiceKept
<1>4. <<m.server, m.domain>> \in certs /\ DomainLeads(m)
    BY <1>1, <1>2 DEF ServedInv, Reached
<1>5. ASSUME certPath' = injected, DataKept
      PROVE  /\ ServiceTyped /\ Improves /\ RecordsStay /\ PathIsCertified'
             /\ DomainLeads(m)' /\ ProfileServes(m)'
  <2>1. Improves /\ ProfileServes(m)' /\ certPath' \in [Profiles -> Domains \cup {Nil}]
      BY <1>2, <1>5, PathImproves DEF ServedInv
  <2>2. PathIsCertified'
    <3>1. \A p \in Profiles : certPath'[p] = IF p = m.profile THEN m.domain ELSE certPath[p]
        BY <1>5 DEF ServedInv, ServedTypes
    <3> QED BY <1>2, <1>4, <3>1 DEF ServedInv, HysteriaNodeServed, PathIsCertified
  <2>3. DomainLeads(m)'
      BY <1>2, <1>4 DEF DomainLeads, OtherPipelines
  <2> QED BY <1>2, <1>5, <2>1, <2>2, <2>3
          DEF ServiceTyped, RecordsStay, ServedInv, ServedTypes, Begun
<1>6. CASE Breaks(i) /\ certPath' = injected
    BY <1>2, <1>5, <1>6, PipelineBreaks, PipelineEnds
<1>7. CASE GoesOn(i, "node") /\ certPath' = injected
  <2>1. DataKept
      BY <1>7 DEF GoesOn, DataKept, ServedInv, ServedTypes
  <2> QED BY <1>1, <1>2, <1>4, <1>5, <1>7, <2>1, PipelineGoes
<1> QED BY <1>2, <1>3, <1>6, <1>7

\* create_node, for a pipeline and for the stable preset.
LEMMA NodeStep == ASSUME ServedInv, NEW i \in Slots, PipelineNode(i) PROVE ServedInv'
<1>1. PICK m \in pipelines : m = runs[i].of
    BY DEF PipelineNode, InPipeline, ServedInv
<1> DEFINE node == [preset |-> "hysteria", server |-> m.server, domain |-> m.domain,
                    panel |-> runs[i].panel, profile |-> m.profile]
<1>2. /\ runs[i].kind = "pipeline" /\ runs[i].at = "node"
      /\ UNCHANGED <<dns, certs, certPath, pipelines>>
      /\ nodes' \in {nodes, nodes \cup {node}}
      /\ EndsClearing(i) \/ Refused(i) \/ Breaks(i)
    BY <1>1 DEF PipelineNode, InPipeline
<1>3. m.domain \in Domains /\ m.profile \in Profiles
    BY DEF ServedInv, ServedTypes, IsRun
<1>4. \A n \in nodes' \ nodes : n.domain = m.domain /\ n.profile = m.profile
                                  /\ n.server = m.server
    BY <1>2
<1>5. Served(m)
    BY <1>1, <1>2 DEF ServedInv, Reached, Served
<1>6. \A n \in nodes' \ nodes : Served(n)'
    BY <1>2, <1>4, <1>5 DEF Served, ProfileServes, DomainLeads, OtherPipelines
<1>7. DataKept /\ runs' = [runs EXCEPT ![i] = NoRun]
    BY <1>2, PipelineBreaks
<1>8. ServiceTyped /\ Improves /\ RecordsStay /\ PathIsCertified'
    BY <1>2, <1>3, <1>4, <1>7, SameImproves
       DEF ServiceTyped, ServedInv, ServedTypes, RecordsStay, HysteriaNodeServed,
           PathIsCertified, Begun
<1> QED BY <1>2, <1>6, <1>7, <1>8, PipelineEnds

LEMMA RegisterStep == ASSUME ServedInv, NEW i \in Slots, RegisterEnds(i) PROVE ServedInv'
<1>1. /\ UNCHANGED <<dns, certs, certPath, pipelines>>
      /\ nodes \subseteq nodes' /\ \A n \in nodes' \ nodes : n.preset = "remnanode"
      /\ EndsClearing(i) \/ Breaks(i)
    BY DEF RegisterEnds
<1>2. RunsKept /\ DataKept
    BY <1>1, EndsAside DEF ServedInv, Aside
<1>3. ASSUME NEW q, NEW points, Reached(q, points)' PROVE Reached(q, points)
    BY <1>2, <1>3 DEF Reached, RunsKept, Calm
<1>4. Improves
    BY <1>1, SameImproves
<1>5. ServedTypes'
    BY <1>1, <1>2 DEF ServedInv, ServedTypes, RunsKept, Calm, DataKept, Begun, IsRun, RunShape
<1>6. HysteriaNodeServed'
    BY <1>1 DEF ServedInv, HysteriaNodeServed, PathIsCertified, ProfileServes, DomainLeads,
                OtherPipelines
<1>7. \A q \in pipelines : q.domain \in Domains /\ q.profile \in Profiles
    BY DEF ServedInv, ServedTypes, IsRun
<1>8. \A q \in pipelines' :
         /\ Reached(q, {"cert", "profile", "node"})' => DomainLeads(q)'
         /\ Reached(q, {"profile", "node"})' => <<q.server, q.domain>> \in certs'
         /\ Reached(q, {"node"})' => ProfileServes(q)'
    BY <1>1, <1>3, <1>4, <1>7 DEF ServedInv, Improves
<1>9. \A j \in Slots : runs'[j].kind = "pipeline" => runs'[j] = runs[j]
    BY <1>2 DEF RunsKept, Calm
<1> QED BY <1>1, <1>5, <1>6, <1>8, <1>9 DEF ServedInv

-----------------------------------------------------------------------------

LEMMA ServedStep == ServedInv /\ [Next]_vars => ServedInv'
<1> SUFFICES ASSUME ServedInv, [Next]_vars PROVE ServedInv'
    OBVIOUS
<1> USE DEF ServedInv
<1>1. CASE UNCHANGED vars
    BY <1>1, RunsUnchanged, Bystander
       DEF vars, chatVars, deployVars, DataKept, ServedTypes, ServiceKept
<1>2. CASE ChatNext /\ UNCHANGED <<deployVars, hostsVars>>
    BY <1>2, ChatSteps, Bystander DEF deployVars, Aside, ServiceKept
<1>3. CASE HostsNext /\ UNCHANGED deployVars
    BY <1>3, HostsSteps, HostsRuns, Bystander DEF HostsNext, deployVars, Aside, ServiceKept
<1>4. CASE DeployNext
  <2>1. CASE StableStep
      BY <2>1, StableSteps, Bystander DEF Aside
  <2>2. CASE HysteriaStep
      BY <2>2, HysteriaSteps, SubdomainStep, Bystander DEF Aside
  <2>3. CASE CancelDeploy
      BY <2>3, DropAside, Bystander DEF CancelDeploy, StillHere, deployVars, ServiceKept, Aside
  <2>4. ASSUME NEW i \in Slots, DeployRun(i) PROVE ServedInv'
      BY <2>4, InstallRuns, RegisterStep, DnsGetStep, DnsPutStep, CertStep, ProfileStep, NodeStep,
         Bystander DEF DeployRun, Aside
  <2> QED BY <1>4, <2>1, <2>2, <2>3, <2>4 DEF DeployNext
<1> QED BY <1>1, <1>2, <1>3, <1>4 DEF Next

\* Whatever fails, breaks or overlaps in the chat, and for any number of panels,
\* profiles, domains, servers and handlers at work: the pipeline of deploy.py puts
\* a hysteria node on the panel only with its certificate, its profile and its
\* A record in place, or taken over by another pipeline.
THEOREM NodesAreServed == Spec => []HysteriaNodeServed
<1>1. ServedInv => HysteriaNodeServed
    BY DEF ServedInv
<1> QED BY <1>1, ServedInit, ServedStep, PTL DEF Spec
=============================================================================

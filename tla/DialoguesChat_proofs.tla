------------------------ MODULE DialoguesChat_proofs ------------------------
(***************************************************************************)
(* What the wizards of Dialogues may rely on although they share the FSM   *)
(* data, proved for any plans and any number of panels, profiles, domains, *)
(* servers, hosts and handlers at work at the same time.                   *)
(***************************************************************************)
EXTENDS Dialogues, TLAPS

-----------------------------------------------------------------------------
(* Types: of the chat, of the handlers at work, of what they reach.        *)

StablePoints == {"panel", "ip", "login", "auth", "passphrase", "become", "secret", "port", "profile"}
HysPoints == {"panel", "ip", "login", "auth", "passphrase", "become", "profile", "zone", "manual",
              "subdomain"}

Positions == {NoState} \cup ({"remnanode"} \X StablePoints) \cup ({"hysteria"} \X HysPoints)
                       \cup ({"hosts"} \X DOMAIN Previous)

\* The address that hys_got_ip stores in some dialogue.
HysServer(s) == \E k \in 1..talk : plan.wizards[k] = "hysteria" /\ s = <<k, 1>>

CredentialKeys == {"key_data", "password", "become_pass"}

LookupTyped(r) ==
    /\ DOMAIN r = {"kind", "to", "upd"}
    /\ \/ r.to = <<"hysteria", "zone">> /\ \E p \in Profiles : r.upd = [profile |-> p]
       \/ r.to = <<"hysteria", "subdomain">> /\ r.upd = [zone |-> r.upd.zone] /\ r.upd.zone \in Nat
       \/ /\ r.to = <<"hosts", "tag">>
          /\ \E p \in Panels : \E T \in SUBSET Tags : r.upd = [panel_id |-> p, tags |-> T]

InstallTyped(r) ==
    /\ DOMAIN r = {"kind", "at", "servers", "panel", "secret"}
    /\ r.servers \subseteq Servers /\ r.panel \in Panels \cup {Nil}
    /\ r.panel # Nil => r.secret = r.panel
    /\ r.at = "profiles" => r.panel \in Panels

RegisterTyped(r) ==
    /\ DOMAIN r = {"kind", "servers", "panel", "profile"}
    /\ r.servers \subseteq Servers /\ r.profile \in Profiles

PipelineTyped(r) ==
    /\ DOMAIN r = {"kind", "at", "of", "panel", "login", "foreign", "found"}
    /\ r.of \in [server : Servers, domain : Domains, profile : Profiles]
    /\ HysServer(r.of.server) /\ r.foreign \subseteq CredentialKeys

Kinds == {"none", "lookup", "install", "register", "hys_install", "pipeline", "apply", "preview",
          "search"}

RunTyped(r) ==
    /\ r.kind \in Kinds
    /\ r.kind = "none" => r = NoRun
    /\ r.kind = "lookup" => LookupTyped(r)
    /\ r.kind = "install" => InstallTyped(r)
    /\ r.kind = "register" => RegisterTyped(r)
    /\ r.kind = "hys_install" => DOMAIN r = {"kind", "at", "server", "panel"} /\ HysServer(r.server)
    /\ r.kind = "pipeline" => PipelineTyped(r)
    /\ r.kind = "apply" => DOMAIN r = {"kind", "at", "tag", "how", "early", "promise", "pairs"}
    /\ r.kind \in {"preview", "search"} =>
          DOMAIN r = {"kind", "at", "tag", "set", "distribution", "targets"} /\ r.set \in IpSets

ChatTyped ==
    /\ fsm \in Positions
    /\ data = [k \in Keys |-> data[k]]
    /\ data["profile"] \in Profiles \cup {Absent}
    /\ data["ip"] = Absent \/ HysServer(data["ip"])
    /\ data["tags"] = Absent \/ data["tags"] \subseteq Tags
    /\ plan \in Plans /\ talk \in 0..Len(plan.wizards)
    /\ mixed \subseteq {"leftover", "stray", "retagged"}
    /\ overlaps \in Nat

RunsTyped == runs = [i \in Slots |-> runs[i]] /\ \A i \in Slots : RunTyped(runs[i])

ReachTyped ==
    /\ DOMAIN installed = Servers /\ DOMAIN dns = Domains /\ DOMAIN certPath = Profiles
    /\ certs \subseteq Servers \X Domains
    /\ pipelines \subseteq [server : Servers, domain : Domains, profile : Profiles]
    /\ borrowed \subseteq Servers \X CredentialKeys
    /\ \A n \in nodes : n.server \in Servers /\ n.profile \in Profiles
    /\ hostTag \in [Hosts -> Tags] /\ retags \in Nat

-----------------------------------------------------------------------------
(* What a deployment dialogue has been told where it stands, whatever else is *)
(* at work: other handlers replace the data only together with the state.     *)

Own == {s \in Servers : s[1] = talk}

AuthedIn(d) == \/ d["auth_method"] = "key" /\ d["key_data"] = talk
               \/ d["auth_method"] = "password" /\ d["password"] = talk
Authed == AuthedIn(data)

AfterLogin == {"auth", "passphrase", "become", "secret", "port"}
AfterIp    == {"login"} \cup AfterLogin
AfterPanel == {"ip"} \cup AfterIp

\* The dialogue is the newest one, and its answers are in the data.
Told ==
    /\ fsm[1] \in Presets /\ fsm[2] \in {"panel"} \cup AfterPanel =>
          talk \in DOMAIN plan.wizards /\ plan.wizards[talk] = fsm[1]
    /\ fsm[1] = "remnanode" =>
          /\ fsm[2] \in AfterPanel => data["panel_id"] \in Panels \cup {Nil}
          /\ fsm[2] \in AfterIp => data["ips"] = Own
          /\ fsm[2] = "port" => data["secret_key"] # Absent
          /\ fsm[2] = "profile" => data["panel_id"] \in Panels /\ data["node_addresses"] \subseteq Servers
    /\ fsm[1] = "hysteria" =>
          /\ fsm[2] \in AfterPanel => data["panel_id"] \in Panels
          /\ fsm[2] \in AfterIp => data["ip"] = <<talk, 1>>
    /\ fsm[1] \in Presets =>
          /\ fsm[2] \in AfterLogin => data["login"] # Absent
          /\ fsm[2] \in AfterLogin \ {"auth"} => Authed
          /\ fsm[2] = "passphrase" => data["key_data"] = talk

\* Without an abandoned wizard the passwords in the data are this dialogue's.
FreshIn(d) ==
    "leftover" \notin mixed =>
        d["password"] \in {Absent, talk} /\ d["become_pass"] \in {Absent, Nil, talk}
Fresh == FreshIn(data)

Typed == ChatTyped /\ RunsTyped /\ ReachTyped /\ Told /\ Fresh

-----------------------------------------------------------------------------
(* Who may register a server, and for which panel.                         *)

ClaimsOf(r) == IF r.kind \in {"install", "register"} THEN r.servers \X {r.panel} ELSE {}

\* The servers that run with the secret of the panel by now.
SureOf(r) ==
    IF r.kind = "register" \/ (r.kind = "install" /\ r.at = "profiles")
    THEN r.servers \X {r.panel} ELSE {}

DataClaims ==
    IF fsm[1] = "remnanode" /\ fsm[2] \in AfterIp THEN data["ips"] \X {data["panel_id"]}
    ELSE IF fsm = <<"remnanode", "profile">> THEN data["node_addresses"] \X {data["panel_id"]}
    ELSE {}

DataSure ==
    IF fsm = <<"remnanode", "profile">> THEN data["node_addresses"] \X {data["panel_id"]} ELSE {}

Registered == {<<n.server, n.panel>> : n \in {m \in nodes : m.preset = "remnanode"}}

Claimed == DataClaims \cup Registered \cup UNION {ClaimsOf(runs[i]) : i \in Slots}
Sure    == DataSure \cup Registered \cup UNION {SureOf(runs[i]) : i \in Slots}

\* A server is claimed by the one dialogue it was typed in, for the one panel
\* chosen there; so nobody changes what runs on it any more.
Claims ==
    /\ \A c \in Claimed : /\ c[1] \in Servers /\ c[1][1] \in 1..talk
                          /\ plan.wizards[c[1][1]] = "remnanode"
    /\ \A c, d \in Claimed : c[1] = d[1] => c[2] = d[2]
    /\ fsm[1] = "remnanode" /\ fsm[2] \in {"panel", "ip"} => \A c \in Claimed : c[1][1] # talk
    /\ \A c \in Sure : c[2] \in Panels /\ installed[c[1]] = c[2]

-----------------------------------------------------------------------------
(* One handler at a time: what the chat holds is what the handler at work left. *)

InHysteria(points) == fsm[1] = "hysteria" /\ fsm[2] \in points
Later == {"profile", "zone", "manual", "subdomain"}

Alone == \A i, j \in Slots : runs[i] # NoRun /\ runs[j] # NoRun => i = j

Excused == IF "leftover" \in mixed THEN {"become_pass"} ELSE {}

\* A hysteria dialogue keeps what it was told until its pipeline starts.
HysTold ==
    /\ InHysteria(Later) => /\ data["ip"] = <<talk, 1>> /\ data["ip"] # Absent
                            /\ data["panel_id"] \in Panels
                            /\ data["login"] # Absent /\ Authed
    /\ InHysteria({"zone", "manual", "subdomain"}) => data["profile"] # Absent
    /\ InHysteria({"subdomain"}) => data["zone"] # Absent

HysRunKept(r) ==
    /\ r.kind = "hys_install" => InHysteria(AfterLogin) /\ Authed
    /\ r.kind = "lookup" /\ r.to = <<"hysteria", "zone">> => InHysteria({"profile"})
    /\ r.kind = "lookup" /\ r.to = <<"hysteria", "subdomain">> => InHysteria({"zone", "manual"})
    /\ r.kind = "pipeline" => r.foreign \subseteq Excused /\ r.login # Absent

HysKept == HysTold /\ \A i \in Slots : HysRunKept(runs[i])

Lent == \A b \in borrowed : b[2] \in Excused

InOrder == Alone /\ HysKept /\ Lent

-----------------------------------------------------------------------------
(* The hosts wizard.                                                       *)

InHosts(points) == fsm[1] = "hosts" /\ fsm[2] \in points
AutoHow ==
    IF data["distribution"] = "same" THEN Same(data["auto_ip"])
    ELSE Each(IF data["auto_each_ips"] = Absent THEN <<>> ELSE data["auto_each_ips"])

Has(keys) == ~Lacks(keys)

\* What the hosts wizard has stored where it stands.
ForTag   == {"panel_id", "tags"}
ForMode  == ForTag \cup {"selected_tag"}
ForDist  == ForMode \cup {"source"}
ForSet   == ForDist \cup {"distribution"}
ForShow  == ForSet \cup {"set_id"}
Needs == [panel |-> {}, tag |-> ForTag, mode |-> ForMode, address |-> ForMode, source |-> ForMode,
          distribution |-> ForDist, ipset |-> ForSet, single |-> ForShow, confirm_bulk |-> ForShow,
          confirm_auto |-> ForShow]

HostsTold ==
    /\ fsm[1] = "hosts" => Has(Needs[fsm[2]])
    /\ InHosts({"single"}) => data["set_id"] \in IpSets
    /\ InHosts({"confirm_auto"}) => AutoHow # Same(Absent)

HostsRunKept(r) ==
    /\ r.kind = "apply" => r.how # Same(Absent)
    /\ r.kind \in {"preview", "search"} =>
          InHosts({"ipset"}) /\ Has({"set_id"}) /\ r.distribution = data["distribution"]

HostsKept == HostsTold /\ (\A i \in Slots : HostsRunKept(runs[i])) /\ missing = {}

\* What is confirmed is what the chat holds, and what is applied.
ShownTold ==
    /\ InHosts({"confirm_bulk"}) /\ shown # {} =>
          shown = Pairs(Each(data["set_id"]), Targets(data["selected_tag"]))
    /\ InHosts({"confirm_auto"}) /\ shown # {} => shown = Pairs(AutoHow, Targets(data["selected_tag"]))

ShownRun(r) ==
    /\ r.kind = "apply" /\ r.at = "list" => r.promise = Pairs(r.how, Targets(r.tag))
    /\ r.kind = "apply" /\ r.at = "patch" => r.pairs = r.promise
    /\ r.kind \in {"preview", "search"} => r.tag = data["selected_tag"] /\ r.set = data["set_id"]
    /\ r.kind = "search" =>
          /\ r.distribution = data["distribution"] /\ r.at \in {"list", "find"}
          /\ r.at = "find" => r.targets = Targets(r.tag)

Shown == ShownTold /\ (\A i \in Slots : ShownRun(runs[i])) /\ unlike = {}

HostsGood == /\ "stray" \notin mixed => HostsKept
             /\ "retagged" \notin mixed => Shown

\* What holds as long as one handler works at a time.
Whole == overlaps = 0 => InOrder /\ HostsGood

-----------------------------------------------------------------------------
(* The parts of a step.                                                     *)

LEMMA HysServerIs == ChatTyped => \A s : HysServer(s) => s \in Servers
<1> SUFFICES ASSUME ChatTyped, NEW k \in 1..talk, plan.wizards[k] = "hysteria"
             PROVE  <<k, 1>> \in Servers
    BY DEF HysServer
<1>1. plan \in Plans /\ plan.wizards \in Seq(Wizards) /\ talk \in 0..Len(plan.wizards)
    BY ChatAssumption DEF ChatTyped
<1>2. k \in DOMAIN plan.wizards
    BY <1>1
<1> QED BY <1>1, <1>2, DeployAssumption

\* Dialogues are only added.
Onward == plan' = plan /\ talk' \in {talk, talk + 1}

LEMMA HysServerStays == ASSUME ChatTyped, Onward PROVE \A s : HysServer(s) => HysServer(s)'
<1>1. talk \in Nat /\ talk <= talk'
    BY ChatAssumption DEF ChatTyped, Onward
<1>2. \A k \in 1..talk : k \in 1..talk'
    BY <1>1 DEF Onward
<1> QED BY <1>2 DEF HysServer, Onward

LEMMA RunTypedStays == ASSUME ChatTyped, Onward, NEW r, RunTyped(r) PROVE RunTyped(r)'
<1>1. \A s : HysServer(s) => HysServer(s)'
    BY HysServerStays
<1>2. r.kind = "pipeline" => PipelineTyped(r)'
    BY <1>1 DEF RunTyped, PipelineTyped
<1>3. r.kind = "lookup" => LookupTyped(r)'
    BY DEF RunTyped, LookupTyped
<1>4. r.kind = "install" => InstallTyped(r)'
    BY DEF RunTyped, InstallTyped
<1>5. r.kind = "register" => RegisterTyped(r)'
    BY DEF RunTyped, RegisterTyped
<1> QED BY <1>1, <1>2, <1>3, <1>4, <1>5 DEF RunTyped

LEMMA RunsStay == ASSUME ChatTyped, RunsTyped, Onward, UNCHANGED runs PROVE RunsTyped'
BY RunTypedStays DEF RunsTyped

LEMMA RunsPut ==
    ASSUME ChatTyped, RunsTyped, Onward, NEW i \in Slots, NEW STATE run, RunTyped(run),
           runs' = [runs EXCEPT ![i] = run]
    PROVE  RunsTyped'
<1>1. \A r : RunTyped(r) => RunTyped(r)'
    BY RunTypedStays
<1>2. /\ runs' = [j \in Slots |-> runs'[j]] /\ runs'[i] = run
      /\ \A j \in Slots : j # i => runs'[j] = runs[j]
    BY DEF RunsTyped
<1>3. \A j \in Slots : RunTyped(runs'[j])
    BY <1>2 DEF RunsTyped
<1> QED BY <1>1, <1>2, <1>3 DEF RunsTyped

LEMMA NoRunTyped == RunTyped(NoRun) /\ RunTyped(NoRun)'
BY DEF RunTyped, NoRun, Kinds

\* What the properties of ChatTyped and Fresh need of an update.
UpdTyped(upd) ==
    /\ "profile" \in DOMAIN upd => upd["profile"] \in Profiles
    /\ "ip" \in DOMAIN upd => HysServer(upd["ip"])
    /\ "tags" \in DOMAIN upd => upd["tags"] \subseteq Tags

DataTyped(d) ==
    /\ d = [k \in Keys |-> d[k]]
    /\ d["profile"] \in Profiles \cup {Absent}
    /\ d["ip"] = Absent \/ HysServer(d["ip"])
    /\ d["tags"] = Absent \/ d["tags"] \subseteq Tags

LEMMA UpdateTyped == ASSUME ChatTyped, NEW STATE upd, UpdTyped(upd) PROVE DataTyped(Update(upd))
BY DEF ChatTyped, UpdTyped, DataTyped, Update, Keys

LEMMA NoDataTyped == DataTyped(NoData)
BY DEF DataTyped, NoData, Keys

LEMMA NothingIs == UpdTyped(Nothing) /\ (ChatTyped => Update(Nothing) = data)
BY DEF UpdTyped, Nothing, Update, ChatTyped

LEMMA ChatGoesOn ==
    ASSUME ChatTyped, NEW STATE d, DataTyped(d), data' = d, Onward, talk' = talk, fsm' \in Positions,
           mixed' \in {mixed, mixed \cup {"stray"}, mixed \cup {"retagged"}},
           overlaps' \in {overlaps, overlaps + 1}
    PROVE  ChatTyped'
<1>1. \A s : HysServer(s) => HysServer(s)'
    BY HysServerStays
<1>2. data' = [k \in Keys |-> data'[k]] /\ data'["profile"] \in Profiles \cup {Absent}
      /\ (data'["tags"] = Absent \/ data'["tags"] \subseteq Tags)
    BY DEF DataTyped
<1>3. (data["ip"] = Absent \/ HysServer(data["ip"]))'
  <2>1. d["ip"] = Absent \/ HysServer(d["ip"])
      BY DEF DataTyped
  <2>2. \A s : s = d["ip"] => s = data'["ip"]
      OBVIOUS
  <2> QED BY <1>1, <2>1, <2>2
<1>4. plan' \in Plans /\ talk' \in 0..Len(plan'.wizards) /\ overlaps' \in Nat
      /\ mixed' \subseteq {"leftover", "stray", "retagged"}
    BY DEF ChatTyped, Onward
<1> QED BY <1>2, <1>3, <1>4 DEF ChatTyped

LEMMA FreshStays ==
    ASSUME NEW STATE d, FreshIn(d), data' = d, talk' = talk, mixed \subseteq mixed'
    PROVE  Fresh'
BY DEF FreshIn, Fresh

LEMMA ToldElsewhere == ASSUME fsm'[1] \notin Presets PROVE Told'
BY DEF Told, Presets

LEMMA ToldStays ==
    ASSUME Told, Onward, talk' = talk, fsm' = fsm,
           \A k \in {"panel_id", "ips", "ip", "login", "secret_key", "node_addresses"} : data'[k] = data[k],
           fsm[2] \in AfterLogin \ {"auth"} =>
              \A k \in {"auth_method", "key_data", "password"} : data'[k] = data[k]
    PROVE  Told'
BY DEF Told, Onward, Own, Authed, AuthedIn, AfterLogin, AfterIp, AfterPanel

\* One handler's step: the chat's part.
Moderate ==
    /\ Onward /\ talk' = talk
    /\ mixed' \in {mixed, mixed \cup {"stray"}, mixed \cup {"retagged"}}
    /\ overlaps' \in {overlaps, overlaps + 1}

LEMMA HeardIs == Heard => Moderate /\ UNCHANGED <<mixed, plan, talk>>
BY DEF Heard, Meets, Moderate, Onward

LEMMA UnheardIs == Unheard => Moderate /\ UNCHANGED <<mixed, plan, talk, overlaps>>
BY DEF Unheard, Moderate, Onward

LEMMA StepTyped ==
    ASSUME Typed, Moderate, RunsTyped', fsm' \in Positions,
           NEW STATE d, DataTyped(d), FreshIn(d), data' = d, Told', ReachTyped'
    PROVE  Typed'
BY ChatGoesOn, FreshStays DEF Typed, Moderate

LEMMA NoDataFresh == FreshIn(NoData)
BY DEF FreshIn, NoData, Keys

LEMMA DataIs == Typed => DataTyped(data) /\ FreshIn(data)
BY DEF Typed, ChatTyped, DataTyped, Fresh

\* An end of a handler, or of a dialogue.
LEMMA ClearTyped ==
    ASSUME Typed, Moderate, RunsTyped', Clear, ReachTyped' PROVE Typed'
<1>1. fsm' = NoState /\ fsm' \in Positions /\ fsm'[1] \notin Presets
    BY DEF Clear, NoState, Positions, Presets
<1> QED BY <1>1, StepTyped, ToldElsewhere, NoDataTyped, NoDataFresh DEF Clear

LEMMA StayTyped ==
    ASSUME Typed, Moderate, RunsTyped', UNCHANGED <<fsm, data>>, ReachTyped' PROVE Typed'
<1>1. Told'
    BY ToldStays DEF Typed, Moderate
<1> QED BY <1>1, StepTyped, DataIs DEF Typed, ChatTyped

LEMMA DropTyped == ASSUME Typed, Drop, ReachTyped' PROVE Typed'
BY ClearTyped, HeardIs, RunsStay DEF Drop, Typed, Moderate

LEMMA ReplyTyped ==
    ASSUME Typed, NEW STATE to, NEW STATE upd, Reply(to, upd), <<fsm[1], to>> \in Positions,
           UpdTyped(upd), FreshIn(Update(upd)), Told', ReachTyped'
    PROVE  Typed'
<1>1. Moderate /\ RunsTyped'
    BY HeardIs, RunsStay DEF Reply, Typed, Moderate
<1> QED BY <1>1, StepTyped, UpdateTyped DEF Reply, Typed

\* What a handler stores before it raises or goes on to a remote call is no answer to an
\* earlier question.
LEMMA StoredTold ==
    ASSUME Typed, Moderate, fsm' = fsm, NEW STATE upd, data' = Update(upd),
           DOMAIN upd \cap {"panel_id", "ips", "ip", "login", "secret_key", "node_addresses"} = {},
           fsm[2] \in AfterLogin \ {"auth"} => DOMAIN upd \cap {"auth_method", "key_data", "password"} = {}
    PROVE  Told'
<1>1. \A k \in Keys : k \notin DOMAIN upd => data'[k] = data[k]
    BY DEF Update
<1> QED BY <1>1, ToldStays DEF Typed, Moderate, Keys

LEMMA RaisesTyped ==
    ASSUME Typed, NEW STATE handler, NEW STATE upd, Raises(handler, upd),
           UpdTyped(upd), FreshIn(Update(upd)), Told', ReachTyped'
    PROVE  Typed'
<1>1. Moderate /\ RunsTyped' /\ fsm' \in Positions
    BY HeardIs, RunsStay DEF Raises, Typed, ChatTyped, Moderate
<1> QED BY <1>1, StepTyped, UpdateTyped DEF Raises, Typed

LEMMA StartsTyped ==
    ASSUME Typed, NEW STATE run, RunTyped(run), NEW STATE upd, Starts(run, upd),
           UpdTyped(upd), FreshIn(Update(upd)), Told', ReachTyped'
    PROVE  Typed'
<1>1. PICK i \in Slots : runs' = [runs EXCEPT ![i] = run]
    BY DEF Starts
<1>2. Moderate /\ fsm' \in Positions
    BY HeardIs DEF Starts, Typed, ChatTyped
<1>3. RunsTyped'
    BY <1>1, <1>2, RunsPut DEF Typed, Moderate
<1> QED BY <1>2, <1>3, StepTyped, UpdateTyped DEF Starts, Typed

-----------------------------------------------------------------------------
(* The answers in the deployment dialogues.                                 *)

LEMMA FreshUpdate ==
    ASSUME Typed, NEW STATE upd, DOMAIN upd \cap {"password", "become_pass"} = {}
    PROVE  FreshIn(Update(upd))
BY DEF Typed, Fresh, FreshIn, Update, Keys

LEMMA PlainUpd == ASSUME NEW STATE upd, DOMAIN upd \cap {"profile", "ip", "tags"} = {} PROVE UpdTyped(upd)
BY DEF UpdTyped

LEMMA ReachStays ==
    ASSUME Typed, UNCHANGED <<installed, dns, certs, certPath, nodes, pipelines, hostTag, retags>>,
           borrowed' \subseteq borrowed \cup (Servers \X CredentialKeys)
    PROVE  ReachTyped'
BY DEF Typed, ReachTyped

\* What the user gives at the questions about the login.
Gives(upd) ==
    \/ fsm[2] = "auth" /\ upd = [auth_method |-> "key", key_data |-> talk]
    \/ fsm[2] = "auth" /\ upd = [auth_method |-> "password", password |-> talk]
    \/ fsm[2] = "passphrase" /\ upd = Nothing
    \/ fsm[2] = "become" /\ \E secret \in {Nil, talk, SamePassword} : upd = [become_pass |-> secret]

AuthStep ==
    \/ fsm[2] = "auth" /\ StillHere /\ Reply("passphrase", [auth_method |-> "key", key_data |-> talk])
    \/ fsm[2] = "passphrase" /\ Lacks({"key_data"}) /\ StillHere /\ Raises("passphrase", Nothing)
    \/ \E upd : /\ Gives(upd)
                /\ \/ fsm[2] \in {"auth", "passphrase"} /\ StillHere /\ Reply("become", upd)
                   \/ /\ fsm[1] = "remnanode" /\ data["panel_id"] \in {Nil, Absent}
                      /\ StillHere /\ Reply("secret", upd)
                   \/ fsm[1] = "remnanode" /\ data["panel_id"] \notin {Nil, Absent} /\ RunDeployment(upd)
                   \/ fsm[1] = "hysteria" /\ HysDeployNode(upd)

LEMMA AfterAuthIs ==
    ASSUME NEW wizard \in Presets, fsm[1] = wizard, NEW STATE upd, Gives(upd),
           AfterBecome(wizard, upd) \/ (fsm[2] # "become" /\ AfterAuth(wizard, upd))
    PROVE  AuthStep
<1>1. CASE AfterBecome(wizard, upd)
    BY <1>1 DEF AfterBecome, AuthStep, Presets
<1>2. CASE fsm[2] # "become" /\ Reply("become", upd) /\ StillHere
    BY <1>2 DEF AuthStep, Gives
<1> QED BY <1>1, <1>2 DEF AfterAuth

LEMMA AuthIs ==
    ASSUME NEW wizard \in Presets,
           \/ SendsKey(wizard) \/ SendsPassword(wizard) \/ SendsPassphrase(wizard)
           \/ BecomesWith(wizard, Nil) \/ BecomesWith(wizard, SamePassword)
           \/ BecomesWith(wizard, talk)
    PROVE  AuthStep /\ fsm[1] = wizard
<1>1. fsm[1] = wizard
    BY DEF SendsKey, SendsPassword, SendsPassphrase, BecomesWith, At
<1>2. CASE SendsKey(wizard)
  <2>1. fsm[2] = "auth"
      BY <1>2 DEF SendsKey, At
  <2>2. Gives([auth_method |-> "key", key_data |-> talk])
      BY <2>1 DEF Gives
  <2> QED BY <1>1, <1>2, <2>1, <2>2, AfterAuthIs DEF SendsKey, AuthStep
<1>3. CASE SendsPassword(wizard)
  <2>1. fsm[2] = "auth"
      BY <1>3 DEF SendsPassword, At
  <2>2. Gives([auth_method |-> "password", password |-> talk])
      BY <2>1 DEF Gives
  <2> QED BY <1>1, <1>3, <2>1, <2>2, AfterAuthIs DEF SendsPassword
<1>4. CASE SendsPassphrase(wizard)
  <2>1. fsm[2] = "passphrase" /\ Gives(Nothing)
      BY <1>4 DEF SendsPassphrase, At, Gives
  <2> QED BY <1>1, <1>4, <2>1, AfterAuthIs DEF SendsPassphrase, AuthStep
<1>5. ASSUME NEW STATE secret, secret \in {Nil, talk, SamePassword}, BecomesWith(wizard, secret)
      PROVE  AuthStep
  <2>1. Gives([become_pass |-> secret])
      BY <1>5 DEF BecomesWith, At, Gives
  <2> QED BY <1>1, <1>5, <2>1, AfterAuthIs DEF BecomesWith
<1> QED BY <1>1, <1>2, <1>3, <1>4, <1>5

LEMMA GivesIs ==
    ASSUME Typed, fsm[1] \in Presets, NEW STATE upd, Gives(upd)
    PROVE  /\ UpdTyped(upd) /\ FreshIn(Update(upd)) /\ AuthedIn(Update(upd))
           /\ DOMAIN upd \subseteq {"auth_method", "key_data", "password", "become_pass"}
           /\ fsm[2] # "auth" => DOMAIN upd \cap {"auth_method", "key_data", "password"} = {}
           /\ fsm[2] \in {"auth", "passphrase", "become"}
<1> DEFINE AuthKeys == {"auth_method", "key_data", "password", "become_pass"}
<1>1. fsm[2] \in {"auth", "passphrase", "become"}
    BY DEF Gives
<1>2. fsm[2] # "auth" => Authed
    BY <1>1 DEF Typed, Told, AfterLogin
<1>3. CASE upd = [auth_method |-> "key", key_data |-> talk]
  <2>1. DOMAIN upd = {"auth_method", "key_data"} /\ upd["auth_method"] = "key" /\ upd["key_data"] = talk
      BY <1>3
  <2>2. FreshIn(Update(upd)) /\ UpdTyped(upd)
      BY <2>1, FreshUpdate, PlainUpd
  <2>3. AuthedIn(Update(upd))
      BY <2>1 DEF AuthedIn, Update, Keys
  <2> QED BY <1>1, <2>1, <2>2, <2>3 DEF Gives, Nothing
<1>4. CASE upd = [auth_method |-> "password", password |-> talk]
  <2>1. DOMAIN upd = {"auth_method", "password"} /\ upd["auth_method"] = "password" /\ upd["password"] = talk
      BY <1>4
  <2>2. UpdTyped(upd)
      BY <2>1, PlainUpd
  <2>3. AuthedIn(Update(upd))
      BY <2>1 DEF AuthedIn, Update, Keys
  <2>4. FreshIn(Update(upd))
      BY <2>1 DEF FreshIn, Update, Keys, Typed, Fresh
  <2> QED BY <1>1, <2>1, <2>2, <2>3, <2>4 DEF Gives, Nothing
<1>5. CASE upd = Nothing /\ fsm[2] = "passphrase"
  <2>1. DOMAIN upd = {}
      BY <1>5 DEF Nothing
  <2>2. Update(upd) = data
      BY <1>5, NothingIs DEF Typed
  <2>3. FreshIn(Update(upd)) /\ UpdTyped(upd)
      BY <2>1, FreshUpdate, PlainUpd
  <2> QED BY <1>1, <1>2, <1>5, <2>1, <2>2, <2>3 DEF Authed
<1>6. ASSUME NEW STATE secret, secret \in {Nil, talk, SamePassword}, upd = [become_pass |-> secret],
             fsm[2] = "become"
      PROVE  /\ UpdTyped(upd) /\ FreshIn(Update(upd)) /\ AuthedIn(Update(upd))
             /\ DOMAIN upd = {"become_pass"}
  <2>1. DOMAIN upd = {"become_pass"} /\ upd["become_pass"] = secret
      BY <1>6
  <2>2. UpdTyped(upd)
      BY <2>1, PlainUpd
  <2>3. AuthedIn(Update(upd))
      BY <1>2, <1>6, <2>1 DEF Authed, AuthedIn, Update, Keys
  <2>4. "leftover" \notin mixed => secret \in {Nil, talk}
      BY <1>6 DEF Typed, Fresh, FreshIn, SamePassword
  <2>5. FreshIn(Update(upd))
      BY <2>1, <2>4 DEF Typed, Fresh, FreshIn, Update, Keys
  <2> QED BY <2>1, <2>2, <2>3, <2>5
<1> QED BY <1>1, <1>3, <1>4, <1>5, <1>6 DEF Gives

\* What a deployment starts, once nothing it needs is missing.
InstallRun ==
    [kind |-> "install", at |-> "playbook", servers |-> Own, panel |-> data["panel_id"],
     secret |-> IF data["panel_id"] = Nil THEN data["secret_key"] ELSE data["panel_id"]]

HysRun == [kind |-> "hys_install", at |-> "playbook", server |-> <<talk, 1>>,
           panel |-> data["panel_id"]]

Installs(upd) ==
    /\ UNCHANGED remote
    /\ \/ Drop /\ UNCHANGED borrowed
       \/ fsm[1] = "remnanode" /\ Starts(InstallRun, upd) /\ Lends(Own, Update(upd))
       \/ fsm[1] = "hysteria" /\ Starts(HysRun, upd) /\ Lends({<<talk, 1>>}, Update(upd))

LEMMA RunDeploymentIs ==
    ASSUME Typed, fsm[1] = "remnanode", fsm[2] \in AfterLogin, NEW STATE upd,
           DOMAIN upd \cap {"ips", "panel_id", "login", "secret_key"} = {},
           data["panel_id"] = Nil => fsm[2] = "port", RunDeployment(upd)
    PROVE  Installs(upd)
<1> DEFINE d == Update(upd)
<1>1. /\ data["ips"] = Own /\ data["panel_id"] \in Panels \cup {Nil} /\ data["login"] # Absent
      /\ data["panel_id"] = Nil => data["secret_key"] # Absent
    BY DEF Typed, Told, AfterLogin, AfterIp, AfterPanel, Presets
<1>2. d["ips"] = Own /\ d["panel_id"] = data["panel_id"] /\ d["login"] = data["login"]
      /\ d["secret_key"] = data["secret_key"]
    BY <1>1 DEF Update, Keys
<1>3. Own # Absent /\ Absent \notin Panels /\ Nil \notin Panels /\ Absent # Nil
    BY ChatAssumption, DeployAssumption DEF Own
<1> HIDE DEF d
<1>4. UNCHANGED remote
    BY DEF RunDeployment
<1>5. \/ Drop /\ UNCHANGED borrowed
      \/ Starts(InstallRun, upd) /\ Lends(Own, d)
    BY <1>1, <1>2, <1>3 DEF RunDeployment, InstallRun, d
<1> QED BY <1>4, <1>5 DEF Installs, d

LEMMA HysServerOwn ==
    ASSUME Typed, fsm[1] = "hysteria", fsm[2] \in {"panel"} \cup AfterPanel
    PROVE  HysServer(<<talk, 1>>) /\ <<talk, 1>> \in Servers
<1>1. talk \in DOMAIN plan.wizards /\ plan.wizards[talk] = "hysteria"
    BY DEF Typed, Told, Presets
<1>2. plan.wizards \in Seq(Wizards)
    BY ChatAssumption DEF Typed, ChatTyped
<1>3. talk \in 1..talk
    BY <1>1, <1>2
<1>4. HysServer(<<talk, 1>>)
    BY <1>1, <1>3 DEF HysServer
<1> QED BY <1>4, HysServerIs DEF Typed

LEMMA HysDeployNodeIs ==
    ASSUME Typed, fsm[1] = "hysteria", fsm[2] \in AfterLogin, NEW STATE upd,
           DOMAIN upd \cap {"ip", "panel_id", "login"} = {}, HysDeployNode(upd)
    PROVE  Installs(upd)
<1> DEFINE d == Update(upd)
<1>1. /\ data["ip"] = <<talk, 1>> /\ data["panel_id"] \in Panels /\ data["login"] # Absent
    BY DEF Typed, Told, AfterLogin, AfterIp, AfterPanel, Presets
<1>2. d["ip"] = <<talk, 1>> /\ d["panel_id"] = data["panel_id"] /\ d["login"] = data["login"]
    BY <1>1 DEF Update, Keys
<1>3. <<talk, 1>> # Absent /\ Absent \notin Panels /\ Nil \notin Panels
    BY HysServerOwn, ChatAssumption, DeployAssumption DEF AfterPanel, AfterIp
<1> HIDE DEF d
<1>4. UNCHANGED remote
    BY DEF HysDeployNode
<1>5. \/ Drop /\ UNCHANGED borrowed
      \/ Starts(HysRun, upd) /\ Lends({<<talk, 1>>}, d)
    BY <1>1, <1>2, <1>3 DEF HysDeployNode, HysRun, d
<1> QED BY <1>4, <1>5 DEF Installs, d

\* The answers about the login, and the port: on to the next question, or the run starts.
Given(upd) == Gives(upd) \/ (fsm = <<"remnanode", "port">> /\ upd = Nothing)

LoginStep ==
    /\ fsm[1] \in Presets
    /\ \/ /\ fsm[2] = "auth" /\ StillHere
          /\ Reply("passphrase", [auth_method |-> "key", key_data |-> talk])
       \/ \E upd : /\ Gives(upd) /\ StillHere
                   /\ \/ Reply("become", upd)
                      \/ fsm[1] = "remnanode" /\ Reply("secret", upd)
       \/ \E upd : Given(upd) /\ Installs(upd)

LEMMA GivenIs ==
    ASSUME Typed, fsm[1] \in Presets, NEW STATE upd, Given(upd)
    PROVE  /\ UpdTyped(upd) /\ FreshIn(Update(upd)) /\ AuthedIn(Update(upd))
           /\ DOMAIN upd \subseteq {"auth_method", "key_data", "password", "become_pass"}
           /\ fsm[2] # "auth" => DOMAIN upd \cap {"auth_method", "key_data", "password"} = {}
           /\ fsm[2] \in AfterLogin
<1>1. CASE Gives(upd)
    BY <1>1, GivesIs DEF AfterLogin
<1>2. CASE fsm = <<"remnanode", "port">> /\ upd = Nothing
  <2>1. DOMAIN upd = {} /\ Update(upd) = data
      BY <1>2, NothingIs DEF Nothing, Typed
  <2>2. FreshIn(Update(upd)) /\ UpdTyped(upd)
      BY <2>1, FreshUpdate, PlainUpd
  <2>3. fsm[2] = "port" /\ Authed
      BY <1>2 DEF Typed, Told, AfterLogin
  <2> QED BY <2>1, <2>2, <2>3 DEF Authed, AfterLogin
<1> QED BY <1>1, <1>2 DEF Given

LEMMA LoginSteps ==
    ASSUME Typed, fsm[1] \in Presets, AuthStep \/ GotPort
    PROVE  LoginStep
<1>1. fsm[2] \in {"auth", "passphrase", "become"} => fsm[2] \in AfterLogin
    BY DEF AfterLogin
<1>2. ~(fsm[2] = "passphrase" /\ Lacks({"key_data"}))
    BY ChatAssumption DEF Typed, Told, ChatTyped, Lacks
<1>3. ASSUME NEW upd, Gives(upd), fsm[1] = "remnanode", data["panel_id"] \notin {Nil, Absent},
             RunDeployment(upd)
      PROVE  Installs(upd)
    BY <1>1, <1>3, GivesIs, RunDeploymentIs
<1>4. ASSUME NEW upd, Gives(upd), fsm[1] = "hysteria", HysDeployNode(upd)
      PROVE  Installs(upd)
    BY <1>1, <1>4, GivesIs, HysDeployNodeIs
<1>5. CASE AuthStep
    BY <1>2, <1>3, <1>4, <1>5 DEF AuthStep, LoginStep, Given
<1>6. CASE GotPort
  <2>1. fsm = <<"remnanode", "port">> /\ fsm[1] = "remnanode" /\ fsm[2] = "port" /\ RunDeployment(Nothing)
      BY <1>6 DEF GotPort, At
  <2>2. DOMAIN Nothing = {}
      BY DEF Nothing
  <2>3. Installs(Nothing)
      BY <2>1, <2>2, RunDeploymentIs DEF AfterLogin
  <2> QED BY <2>1, <2>3 DEF LoginStep, Given
<1> QED BY <1>5, <1>6

LEMMA LendsTyped ==
    ASSUME NEW STATE servers, servers \subseteq Servers, NEW STATE d, Lends(servers, d)
    PROVE  borrowed' \subseteq borrowed \cup (Servers \X CredentialKeys)
BY DEF Lends, Foreign, Credentials, Login, CredentialKeys

LEMMA RemoteReach ==
    ASSUME Typed, UNCHANGED remote, UNCHANGED hostsVars,
           borrowed' \subseteq borrowed \cup (Servers \X CredentialKeys)
    PROVE  ReachTyped'
BY ReachStays DEF remote, hostsVars

LEMMA HereReach == ASSUME Typed, StillHere, UNCHANGED hostsVars PROVE ReachTyped'
BY ReachStays DEF StillHere, deployVars, hostsVars

LEMMA AnswerTold ==
    ASSUME Typed, fsm[1] \in Presets, Moderate, UNCHANGED plan,
           NEW STATE upd, Given(upd), data' = Update(upd),
           NEW STATE to, to \in {"passphrase", "become", "secret"}, fsm' = <<fsm[1], to>>,
           to = "passphrase" => data'["key_data"] = talk
    PROVE  Told'
<1>1. /\ AuthedIn(Update(upd)) /\ fsm[2] \in AfterLogin
      /\ DOMAIN upd \subseteq {"auth_method", "key_data", "password", "become_pass"}
    BY GivenIs
<1>2. \A k \in {"panel_id", "ips", "ip", "login"} : data'[k] = data[k]
    BY <1>1 DEF Update, Keys
<1>3. talk' = talk /\ fsm'[1] = fsm[1] /\ fsm'[2] = to /\ Authed'
    BY <1>1 DEF Moderate, Authed, AuthedIn
<1> QED BY <1>1, <1>2, <1>3 DEF Typed, Told, AfterLogin, AfterIp, AfterPanel, Own, Presets

LEMMA InstallRunTyped ==
    ASSUME Typed, fsm[1] = "remnanode", fsm[2] \in AfterLogin PROVE RunTyped(InstallRun)
<1>1. data["panel_id"] \in Panels \cup {Nil} /\ Own \subseteq Servers
    BY DEF Typed, Told, AfterLogin, AfterIp, AfterPanel, Own, Presets
<1>2. InstallTyped(InstallRun)
    BY <1>1 DEF InstallTyped, InstallRun
<1>3. InstallRun.kind = "install"
    BY DEF InstallRun
<1> QED BY <1>2, <1>3 DEF RunTyped, Kinds

LEMMA HysRunTyped ==
    ASSUME Typed, fsm[1] = "hysteria", fsm[2] \in AfterLogin PROVE RunTyped(HysRun)
<1>1. HysServer(<<talk, 1>>)
    BY HysServerOwn DEF AfterPanel, AfterIp
<1>2. /\ HysRun.kind = "hys_install" /\ HysRun.server = <<talk, 1>>
      /\ DOMAIN HysRun = {"kind", "at", "server", "panel"}
    BY DEF HysRun
<1>3. HysServer(HysRun.server)
    BY <1>1, <1>2
<1> QED BY <1>2, <1>3 DEF RunTyped, Kinds

LEMMA StartTold ==
    ASSUME Typed, fsm[1] \in Presets, NEW STATE upd, Given(upd), NEW STATE run, Starts(run, upd)
    PROVE  Told'
<1>1. Moderate /\ fsm' = fsm /\ data' = Update(upd)
    BY HeardIs DEF Starts
<1> QED BY <1>1, GivenIs, StoredTold

LEMMA LoginTyped == ASSUME Typed, LoginStep, UNCHANGED hostsVars PROVE Typed'
<1>1. fsm[1] \in Presets
    BY DEF LoginStep
<1>2. ASSUME NEW STATE upd, Given(upd), NEW STATE to, to \in {"passphrase", "become", "secret"},
             Reply(to, upd), StillHere, to = "passphrase" => data'["key_data"] = talk,
             to = "secret" => fsm[1] = "remnanode"
      PROVE  Typed'
  <2>1. Moderate /\ UNCHANGED plan /\ data' = Update(upd) /\ fsm' = <<fsm[1], to>>
      BY <1>2, HeardIs DEF Reply
  <2>2. Told'
      BY <1>1, <1>2, <2>1, AnswerTold
  <2>3. <<fsm[1], to>> \in Positions
      BY <1>1, <1>2 DEF Presets, Positions, StablePoints, HysPoints
  <2> QED BY <1>1, <1>2, <2>2, <2>3, GivenIs, ReplyTyped, HereReach
<1>3. CASE fsm[2] = "auth" /\ StillHere
           /\ Reply("passphrase", [auth_method |-> "key", key_data |-> talk])
  <2> DEFINE upd == [auth_method |-> "key", key_data |-> talk]
  <2>1. Given(upd)
      BY <1>3 DEF Given, Gives
  <2>2. Update(upd)["key_data"] = talk /\ data' = Update(upd)
      BY <1>3 DEF Update, Keys, Reply
  <2> HIDE DEF upd
  <2>3. Reply("passphrase", upd)
      BY <1>3 DEF upd
  <2> QED BY <1>2, <1>3, <2>1, <2>2, <2>3
<1>4. ASSUME NEW upd, Given(upd), Installs(upd) PROVE Typed'
  <2>1. /\ UpdTyped(upd) /\ FreshIn(Update(upd)) /\ fsm[2] \in AfterLogin
      BY <1>1, <1>4, GivenIs
  <2>2. CASE Drop /\ UNCHANGED borrowed
    <3>1. ReachTyped'
        BY <1>4, <2>2, RemoteReach DEF Installs
    <3> QED BY <2>2, <3>1, DropTyped
  <2>3. CASE fsm[1] = "remnanode" /\ Starts(InstallRun, upd) /\ Lends(Own, Update(upd))
    <3>1. Own \subseteq Servers
        BY DEF Own
    <3>2. ReachTyped'
        BY <1>4, <2>3, <3>1, LendsTyped, RemoteReach DEF Installs
    <3>3. Told'
        BY <1>1, <1>4, <2>3, StartTold
    <3> QED BY <2>1, <2>3, <3>2, <3>3, InstallRunTyped, StartsTyped
  <2>4. CASE fsm[1] = "hysteria" /\ Starts(HysRun, upd) /\ Lends({<<talk, 1>>}, Update(upd))
    <3>1. {<<talk, 1>>} \subseteq Servers
        BY <2>1, <2>4, HysServerOwn DEF AfterIp, AfterPanel
    <3>2. ReachTyped'
        BY <1>4, <2>4, <3>1, LendsTyped, RemoteReach DEF Installs
    <3>3. Told'
        BY <1>1, <1>4, <2>4, StartTold
    <3> QED BY <2>1, <2>4, <3>2, <3>3, HysRunTyped, StartsTyped
  <2> QED BY <1>4, <2>2, <2>3, <2>4 DEF Installs
<1>5. ASSUME NEW upd, Gives(upd), StillHere,
             Reply("become", upd) \/ (fsm[1] = "remnanode" /\ Reply("secret", upd))
      PROVE  Typed'
    BY <1>2, <1>5 DEF Given
<1> QED BY <1>3, <1>4, <1>5 DEF LoginStep

LEMMA EntersTyped ==
    ASSUME Typed, NEW wizard \in Wizards, Enters(wizard), ReachTyped'
    PROVE  Typed'
<1>1. /\ talk < Len(plan.wizards) /\ plan.wizards[talk + 1] = wizard /\ talk' = talk + 1
      /\ fsm' = <<wizard, "panel">> /\ UNCHANGED <<data, runs, plan>>
      /\ mixed' = IF data # NoData THEN mixed \cup {"leftover"} ELSE mixed
      /\ overlaps' \in {overlaps, overlaps + 1}
    BY DEF Enters, Meets
<1>2. plan.wizards \in Seq(Wizards) /\ talk \in 0..Len(plan.wizards) /\ overlaps \in Nat
    BY ChatAssumption DEF Typed, ChatTyped
<1>3. Onward
    BY <1>1 DEF Onward
<1>4. RunsTyped'
    BY <1>1, <1>3, RunsStay DEF Typed
<1>5. fsm' \in Positions /\ fsm'[1] = wizard /\ fsm'[2] = "panel"
    BY <1>1 DEF Positions, StablePoints, HysPoints, Previous, Wizards
<1>6. (data["ip"] = Absent \/ HysServer(data["ip"]))'
    BY <1>1, <1>3, HysServerStays DEF Typed, ChatTyped
<1>7. ChatTyped'
  <2>1. data' = [k \in Keys |-> data'[k]] /\ data'["profile"] \in Profiles \cup {Absent}
        /\ (data'["tags"] = Absent \/ data'["tags"] \subseteq Tags)
      BY <1>1 DEF Typed, ChatTyped
  <2>2. plan' \in Plans /\ talk' \in 0..Len(plan'.wizards) /\ overlaps' \in Nat
      BY <1>1, <1>2 DEF Typed, ChatTyped
  <2>3. mixed' \subseteq {"leftover", "stray", "retagged"}
      BY <1>1 DEF Typed, ChatTyped
  <2> QED BY <1>5, <1>6, <2>1, <2>2, <2>3 DEF ChatTyped
<1>8. Told'
  <2>1. talk' \in DOMAIN plan'.wizards /\ plan'.wizards[talk'] = fsm'[1]
      BY <1>1, <1>2, <1>5
  <2> QED BY <2>1, <1>5 DEF Told, AfterPanel, AfterIp, AfterLogin
<1>9. Fresh'
  <2>1. CASE data = NoData
      BY <1>1, <2>1 DEF Fresh, FreshIn, NoData, Keys
  <2>2. CASE data # NoData
      BY <1>1, <2>2 DEF Fresh, FreshIn
  <2> QED BY <2>1, <2>2
<1> QED BY <1>4, <1>7, <1>8, <1>9 DEF Typed

\* The plain answers.
LEMMA AnswersTyped ==
    ASSUME Typed, UNCHANGED hostsVars,
           PanelChosen \/ GotIp \/ GotLogin \/ GotSecretKey
              \/ HysPanelChosen \/ HysGotIp \/ HysGotLogin \/ HysManualZoneStart
    PROVE  Typed'
<1> USE DEF Typed, Told, Presets, AfterPanel, AfterIp, AfterLogin
<1>1. Absent \notin Nat /\ Absent # Root /\ talk \in Nat
    BY ChatAssumption DEF ChatTyped
<1>2. ASSUME NEW p \in Panels \cup {Nil}, NEW w \in Presets, fsm = <<w, "panel">>, StillHere,
             w = "hysteria" => p \in Panels, Reply("ip", [panel_id |-> p])
      PROVE  Typed'
  <2> DEFINE upd == [panel_id |-> p]
  <2>1. DOMAIN upd = {"panel_id"} /\ upd["panel_id"] = p
      OBVIOUS
  <2> HIDE DEF upd
  <2>2. Reply("ip", upd) /\ data' = Update(upd) /\ fsm' = <<w, "ip">> /\ UNCHANGED <<plan, talk>>
      BY <1>2, HeardIs DEF Reply, upd
  <2>3. data'["panel_id"] = p
      BY <2>1, <2>2 DEF Update, Keys
  <2>4. Told'
      BY <1>2, <2>2, <2>3
  <2>5. <<fsm[1], "ip">> \in Positions
      BY <1>2 DEF Positions, StablePoints, HysPoints
  <2> QED BY <1>2, <2>1, <2>2, <2>4, <2>5, ReplyTyped, HereReach, PlainUpd, FreshUpdate
<1>3. ASSUME NEW w \in Presets, fsm = <<w, "login">>, StillHere,
             NEW l \in {Root, talk}, Reply("auth", [login |-> l])
      PROVE  Typed'
  <2> DEFINE upd == [login |-> l]
  <2>1. DOMAIN upd = {"login"} /\ upd["login"] = l
      OBVIOUS
  <2> HIDE DEF upd
  <2>2. Reply("auth", upd) /\ data' = Update(upd) /\ fsm' = <<w, "auth">> /\ UNCHANGED <<plan, talk>>
      BY <1>3, HeardIs DEF Reply, upd
  <2>3. data'["login"] = l /\ \A k \in {"panel_id", "ips", "ip"} : data'[k] = data[k]
      BY <2>1, <2>2 DEF Update, Keys
  <2>4. Told'
      BY <1>1, <1>3, <2>2, <2>3 DEF Own
  <2>5. <<fsm[1], "auth">> \in Positions
      BY <1>3 DEF Positions, StablePoints, HysPoints
  <2> QED BY <1>3, <2>1, <2>2, <2>4, <2>5, ReplyTyped, HereReach, PlainUpd, FreshUpdate
<1>4. CASE GotIp
  <2> DEFINE upd == [ips |-> Own]
  <2>1. DOMAIN upd = {"ips"} /\ upd["ips"] = Own
      OBVIOUS
  <2> HIDE DEF upd
  <2>2. /\ Reply("login", upd) /\ data' = Update(upd) /\ fsm' = <<"remnanode", "login">>
        /\ UNCHANGED <<plan, talk>> /\ fsm = <<"remnanode", "ip">> /\ StillHere
      BY <1>4, HeardIs DEF GotIp, At, Reply, upd, Own
  <2>3. data'["ips"] = Own /\ data'["panel_id"] = data["panel_id"]
      BY <2>1, <2>2 DEF Update, Keys
  <2>4. Told'
      BY <2>2, <2>3 DEF Own
  <2>5. <<fsm[1], "login">> \in Positions
      BY <2>2 DEF Positions, StablePoints
  <2> QED BY <2>1, <2>2, <2>4, <2>5, ReplyTyped, HereReach, PlainUpd, FreshUpdate
<1>5. CASE HysGotIp
  <2> DEFINE upd == [ip |-> <<talk, 1>>]
  <2>1. DOMAIN upd = {"ip"} /\ upd["ip"] = <<talk, 1>>
      OBVIOUS
  <2> HIDE DEF upd
  <2>2. /\ Reply("login", upd) /\ data' = Update(upd) /\ fsm' = <<"hysteria", "login">>
        /\ UNCHANGED <<plan, talk>> /\ fsm = <<"hysteria", "ip">> /\ StillHere
      BY <1>5, HeardIs DEF HysGotIp, At, Reply, upd
  <2>3. data'["ip"] = <<talk, 1>> /\ data'["panel_id"] = data["panel_id"]
      BY <2>1, <2>2 DEF Update, Keys
  <2>4. Told'
      BY <2>2, <2>3
  <2>5. <<fsm[1], "login">> \in Positions
      BY <2>2 DEF Positions, HysPoints
  <2>6. HysServer(<<talk, 1>>)
      BY <2>2, HysServerOwn
  <2>7. UpdTyped(upd)
      BY <2>1, <2>6 DEF UpdTyped
  <2> QED BY <2>1, <2>2, <2>4, <2>5, <2>7, ReplyTyped, HereReach, FreshUpdate
<1>6. CASE GotSecretKey
  <2> DEFINE upd == [secret_key |-> talk]
  <2>1. DOMAIN upd = {"secret_key"} /\ upd["secret_key"] = talk
      OBVIOUS
  <2> HIDE DEF upd
  <2>2. /\ Reply("port", upd) /\ data' = Update(upd) /\ fsm' = <<"remnanode", "port">>
        /\ UNCHANGED <<plan, talk>> /\ fsm = <<"remnanode", "secret">> /\ StillHere
      BY <1>6, HeardIs DEF GotSecretKey, At, Reply, upd
  <2>3. /\ data'["secret_key"] = talk
        /\ \A k \in {"panel_id", "ips", "login", "auth_method", "key_data", "password"} :
              data'[k] = data[k]
      BY <2>1, <2>2 DEF Update, Keys
  <2>4. Authed'
      BY <2>2, <2>3 DEF Authed, AuthedIn
  <2>5. Told'
      BY <1>1, <2>2, <2>3, <2>4 DEF Own
  <2>6. <<fsm[1], "port">> \in Positions
      BY <2>2 DEF Positions, StablePoints
  <2> QED BY <2>1, <2>2, <2>5, <2>6, ReplyTyped, HereReach, PlainUpd, FreshUpdate
<1>7. CASE HysManualZoneStart
  <2>1. /\ Reply("manual", Nothing) /\ fsm' = <<"hysteria", "manual">> /\ fsm = <<"hysteria", "zone">>
        /\ StillHere
      BY <1>7 DEF HysManualZoneStart, At, Reply
  <2>2. <<fsm[1], "manual">> \in Positions
      BY <2>1 DEF Positions, HysPoints
  <2>3. Told'
      BY <2>1
  <2> QED BY <2>1, <2>2, <2>3, ReplyTyped, HereReach, PlainUpd, FreshUpdate DEF Nothing
<1>8. CASE PanelChosen \/ HysPanelChosen
    BY <1>2, <1>8 DEF PanelChosen, HysPanelChosen, ChoosesPanel, At
<1>9. CASE GotLogin \/ HysGotLogin
    BY <1>3, <1>9 DEF GotLogin, HysGotLogin, GivesLogin, At
<1> QED BY <1>4, <1>5, <1>6, <1>7, <1>8, <1>9

LEMMA RaisesNothing ==
    ASSUME Typed, NEW STATE handler, Raises(handler, Nothing), ReachTyped' PROVE Typed'
<1>1. Moderate /\ RunsTyped' /\ UNCHANGED <<fsm, data>>
    BY HeardIs, RunsStay, NothingIs DEF Raises, Typed, Moderate
<1> QED BY <1>1, StayTyped

LEMMA StartsNothing ==
    ASSUME Typed, NEW STATE run, RunTyped(run), Starts(run, Nothing), ReachTyped' PROVE Typed'
<1>1. Moderate /\ UNCHANGED <<fsm, data>>
    BY HeardIs, NothingIs DEF Starts, Typed
<1>2. Told'
    BY <1>1, ToldStays DEF Typed, Moderate
<1> QED BY <1>2, StartsTyped, NothingIs, DataIs DEF Typed

LEMMA LookupIs ==
    ASSUME NEW STATE to, NEW STATE upd,
           \/ to = <<"hysteria", "zone">> /\ \E p \in Profiles : upd = [profile |-> p]
           \/ to = <<"hysteria", "subdomain">> /\ upd = [zone |-> upd.zone] /\ upd.zone \in Nat
           \/ to = <<"hosts", "tag">>
              /\ \E p \in Panels : \E T \in SUBSET Tags : upd = [panel_id |-> p, tags |-> T]
    PROVE  RunTyped(Lookup(to, upd))
<1>1. /\ Lookup(to, upd).kind = "lookup" /\ Lookup(to, upd).to = to /\ Lookup(to, upd).upd = upd
      /\ DOMAIN Lookup(to, upd) = {"kind", "to", "upd"}
    BY DEF Lookup
<1>2. LookupTyped(Lookup(to, upd))
    BY <1>1 DEF LookupTyped
<1> QED BY <1>1, <1>2 DEF RunTyped, Kinds

\* The run that config_profile_chosen and hys_got_subdomain start.
RegisterRun(p) == [kind |-> "register", servers |-> data["node_addresses"],
                   panel |-> data["panel_id"], profile |-> p]

PipelineRun(domain) ==
    [kind |-> "pipeline", at |-> "dns_get",
     of |-> [server |-> data["ip"], domain |-> domain, profile |-> data["profile"]],
     panel |-> data["panel_id"], login |-> data["login"], foreign |-> Foreign(data["ip"], data),
     found |-> FALSE]

LEMMA RegisterRunTyped ==
    ASSUME Typed, fsm = <<"remnanode", "profile">>, NEW p \in Profiles PROVE RunTyped(RegisterRun(p))
<1>1. data["node_addresses"] \subseteq Servers
    BY DEF Typed, Told
<1>2. /\ RegisterRun(p).kind = "register" /\ RegisterRun(p).profile = p
      /\ RegisterRun(p).servers = data["node_addresses"]
      /\ DOMAIN RegisterRun(p) = {"kind", "servers", "panel", "profile"}
    BY DEF RegisterRun
<1> QED BY <1>1, <1>2 DEF RunTyped, RegisterTyped, Kinds

LEMMA PipelineRunTyped ==
    ASSUME Typed, data["ip"] # Absent, data["profile"] # Absent, NEW d \in Domains
    PROVE  /\ RunTyped(PipelineRun(d))
           /\ PipelineRun(d).of \in [server : Servers, domain : Domains, profile : Profiles]
<1>1. HysServer(data["ip"]) /\ data["ip"] \in Servers /\ data["profile"] \in Profiles
    BY HysServerIs DEF Typed, ChatTyped
<1>2. /\ PipelineRun(d).kind = "pipeline" /\ PipelineRun(d).foreign = Foreign(data["ip"], data)
      /\ PipelineRun(d).of = [server |-> data["ip"], domain |-> d, profile |-> data["profile"]]
      /\ PipelineRun(d).of.server = data["ip"]
      /\ DOMAIN PipelineRun(d) = {"kind", "at", "of", "panel", "login", "foreign", "found"}
    BY DEF PipelineRun
<1>3. Foreign(data["ip"], data) \subseteq CredentialKeys
    BY DEF Foreign, Credentials, Login, CredentialKeys
<1>4. HysServer(PipelineRun(d).of.server)
    BY <1>1, <1>2
<1>5. PipelineRun(d).of \in [server : Servers, domain : Domains, profile : Profiles]
    BY <1>1, <1>2
<1>6. PipelineTyped(PipelineRun(d))
    BY <1>2, <1>3, <1>4, <1>5 DEF PipelineTyped
<1> QED BY <1>2, <1>5, <1>6 DEF RunTyped, Kinds

LEMMA ChoicesTyped ==
    ASSUME Typed, UNCHANGED hostsVars,
           ConfigProfileChosen \/ HysProfileChosen \/ HysZoneSelected \/ HysGotManualZone
              \/ CancelDeploy
    PROVE  Typed'
<1>1. ReachTyped'
    BY HereReach DEF ConfigProfileChosen, HysProfileChosen, HysZoneSelected, HysGotManualZone,
                     CancelDeploy
<1>2. CASE ConfigProfileChosen
  <2>1. fsm = <<"remnanode", "profile">>
      BY <1>2 DEF ConfigProfileChosen, At
  <2>2. ASSUME NEW p \in Profiles, Starts(RegisterRun(p), Nothing) PROVE Typed'
      BY <1>1, <2>1, <2>2, RegisterRunTyped, StartsNothing
  <2> QED BY <1>1, <1>2, <2>2, RaisesNothing, DropTyped DEF ConfigProfileChosen, RegisterRun
<1>3. CASE HysProfileChosen
  <2>1. ASSUME NEW p \in Profiles, Starts(Lookup(<<"hysteria", "zone">>, [profile |-> p]), Nothing)
        PROVE  Typed'
    <3>1. RunTyped(Lookup(<<"hysteria", "zone">>, [profile |-> p]))
        BY LookupIs
    <3> QED BY <1>1, <2>1, <3>1, StartsNothing
  <2> QED BY <1>1, <1>3, <2>1, RaisesNothing, DropTyped DEF HysProfileChosen
<1>4. CASE HysZoneSelected \/ HysGotManualZone
  <2>1. Starts(Lookup(<<"hysteria", "subdomain">>, [zone |-> talk]), Nothing)
      BY <1>4 DEF HysZoneSelected, HysGotManualZone
  <2>2. talk \in Nat
      BY ChatAssumption DEF Typed, ChatTyped
  <2>3. RunTyped(Lookup(<<"hysteria", "subdomain">>, [zone |-> talk]))
      BY <2>2, LookupIs
  <2> QED BY <1>1, <2>1, <2>3, StartsNothing
<1>5. CASE CancelDeploy
    BY <1>1, <1>5, DropTyped DEF CancelDeploy
<1> QED BY <1>2, <1>3, <1>4, <1>5

LEMMA SubdomainIs ==
    ASSUME HysGotSubdomain
    PROVE  /\ fsm = <<"hysteria", "subdomain">>
           /\ UNCHANGED <<installed, dns, certs, certPath, nodes, borrowed>>
           /\ \/ Lacks({"zone", "ip", "panel_id", "profile"})
                 /\ Raises("hys_got_subdomain", Nothing) /\ UNCHANGED pipelines
              \/ Drop /\ UNCHANGED pipelines
              \/ /\ data["ip"] # Absent /\ data["profile"] # Absent
                 /\ \E domain \in Domains : /\ Starts(PipelineRun(domain), Nothing)
                                            /\ pipelines' = pipelines \cup {PipelineRun(domain).of}
<1>1. \A d : PipelineRun(d).of = [server |-> data["ip"], domain |-> d, profile |-> data["profile"]]
    BY DEF PipelineRun
<1>2. Lacks({"zone", "ip", "panel_id", "profile"}) \/ (data["ip"] # Absent /\ data["profile"] # Absent)
    BY DEF Lacks
<1>3. fsm = <<"hysteria", "subdomain">>
      /\ UNCHANGED <<installed, dns, certs, certPath, nodes, borrowed>>
    BY DEF HysGotSubdomain, At
<1>4. ASSUME NEW domain \in Domains,
             Starts([kind |-> "pipeline", at |-> "dns_get",
                     of |-> [server |-> data["ip"], domain |-> domain, profile |-> data["profile"]],
                     panel |-> data["panel_id"], login |-> data["login"],
                     foreign |-> Foreign(data["ip"], data), found |-> FALSE], Nothing)
      PROVE  Starts(PipelineRun(domain), Nothing)
    BY <1>4 DEF PipelineRun
<1> QED BY <1>1, <1>2, <1>3, <1>4 DEF HysGotSubdomain

LEMMA SubdomainTyped == ASSUME Typed, UNCHANGED hostsVars, HysGotSubdomain PROVE Typed'
<1>1. ASSUME UNCHANGED pipelines PROVE ReachTyped'
    BY <1>1, SubdomainIs, ReachStays DEF hostsVars
<1>2. ASSUME data["ip"] # Absent, data["profile"] # Absent, NEW d \in Domains,
             Starts(PipelineRun(d), Nothing), pipelines' = pipelines \cup {PipelineRun(d).of}
      PROVE  Typed'
  <2>1. PipelineRun(d).of \in [server : Servers, domain : Domains, profile : Profiles]
        /\ RunTyped(PipelineRun(d))
      BY <1>2, PipelineRunTyped
  <2>2. ReachTyped'
      BY <1>2, <2>1, SubdomainIs DEF Typed, ReachTyped, hostsVars
  <2> QED BY <1>2, <2>1, <2>2, StartsNothing
<1> QED BY <1>1, <1>2, SubdomainIs, RaisesNothing, DropTyped

\* The questions of both presets, as steps of the chat.
LEMMA DeployStepsAre ==
    ASSUME Typed, StableStep \/ HysteriaStep \/ CancelDeploy
    PROVE  \/ LoginStep
           \/ PanelChosen \/ GotIp \/ GotLogin \/ GotSecretKey
              \/ HysPanelChosen \/ HysGotIp \/ HysGotLogin \/ HysManualZoneStart
           \/ ConfigProfileChosen \/ HysProfileChosen \/ HysZoneSelected \/ HysGotManualZone
              \/ CancelDeploy
           \/ HysGotSubdomain
           \/ \E w \in Presets : Enters(w) /\ StillHere
<1>1. ASSUME AuthGotKeyFile \/ AuthGotPassword \/ AuthGotPassphrase
                \/ RnBecomeNopass \/ RnBecomeSamePass \/ RnBecomeGotPass
      PROVE  LoginStep
  <2>1. AuthStep /\ fsm[1] \in Presets
      BY <1>1, AuthIs DEF AuthGotKeyFile, AuthGotPassword, AuthGotPassphrase, RnBecomeNopass,
                          RnBecomeSamePass, RnBecomeGotPass, Presets
  <2> QED BY <2>1, LoginSteps
<1>2. ASSUME HysAuthGotKeyFile \/ HysAuthGotPassword \/ HysAuthGotPassphrase
                \/ HysBecomeNopass \/ HysBecomeSamePass \/ HysBecomeGotPass
      PROVE  LoginStep
  <2>1. AuthStep /\ fsm[1] \in Presets
      BY <1>2, AuthIs DEF HysAuthGotKeyFile, HysAuthGotPassword, HysAuthGotPassphrase,
                          HysBecomeNopass, HysBecomeSamePass, HysBecomeGotPass, Presets
  <2> QED BY <2>1, LoginSteps
<1>3. ASSUME GotPort PROVE LoginStep
  <2>1. fsm[1] \in Presets
      BY <1>3 DEF GotPort, At, Presets
  <2> QED BY <1>3, <2>1, LoginSteps
<1>4. PresetRemnanodeStable \/ PresetHysteriaTls => \E w \in Presets : Enters(w) /\ StillHere
    BY DEF PresetRemnanodeStable, PresetHysteriaTls, Presets
<1> QED BY <1>1, <1>2, <1>3, <1>4 DEF StableStep, HysteriaStep

LEMMA DeployStepsTyped ==
    ASSUME Typed, UNCHANGED hostsVars, StableStep \/ HysteriaStep \/ CancelDeploy
    PROVE  Typed'
<1>1. ASSUME NEW w \in Presets, Enters(w), StillHere PROVE Typed'
  <2>1. w \in Wizards
      BY DEF Presets, Wizards
  <2> QED BY <1>1, <2>1, HereReach, EntersTyped
<1> QED BY <1>1, DeployStepsAre, LoginTyped, AnswersTyped, ChoicesTyped, SubdomainTyped

-----------------------------------------------------------------------------
(* The handlers at work.                                                    *)

LEMMA QuitsTyped ==
    ASSUME Typed, NEW i \in Slots, Quits(i) \/ (runs' = [runs EXCEPT ![i] = NoRun] /\ Moderate)
    PROVE  Moderate /\ RunsTyped'
<1>1. Moderate /\ runs' = [runs EXCEPT ![i] = NoRun]
    BY UnheardIs DEF Quits
<1> QED BY <1>1, RunsPut, NoRunTyped DEF Typed, Moderate

LEMMA EndsTyped ==
    ASSUME Typed, NEW i \in Slots, EndsClearing(i) \/ Refused(i) \/ Breaks(i), ReachTyped'
    PROVE  Typed'
<1>1. Moderate /\ RunsTyped'
    BY QuitsTyped DEF EndsClearing, Ends, Refused, Breaks, Fails
<1> QED BY <1>1, ClearTyped, StayTyped DEF EndsClearing, Refused, Breaks

LEMMA MovesOnTyped ==
    ASSUME Typed, NEW i \in Slots, NEW STATE run, RunTyped(run), runs' = [runs EXCEPT ![i] = run],
           Unheard
    PROVE  Moderate /\ RunsTyped'
<1>1. Moderate
    BY UnheardIs
<1> QED BY <1>1, RunsPut DEF Typed, Moderate

LEMMA GoesOnTyped ==
    ASSUME Typed, NEW i \in Slots, runs[i].kind \in {"hys_install", "pipeline"}, NEW at, GoesOn(i, at),
           ReachTyped'
    PROVE  Typed'
<1> DEFINE r == runs[i]
           run == [r EXCEPT !.at = at]
<1>1. RunTyped(r)
    BY DEF Typed, RunsTyped
<1>2. runs' = [runs EXCEPT ![i] = run]
    BY DEF GoesOn, Typed, RunsTyped
<1> HIDE DEF r
<1>3. "at" \in DOMAIN r /\ DOMAIN run = DOMAIN r /\ \A k \in DOMAIN r : k # "at" => run[k] = r[k]
    BY <1>1 DEF RunTyped, PipelineTyped, r
<1>4. RunTyped(run)
  <2>1. CASE r.kind = "hys_install"
    <3>1. run.kind = "hys_install" /\ run.server = r.server /\ DOMAIN run = DOMAIN r
        BY <1>1, <1>3, <2>1 DEF RunTyped
    <3> HIDE DEF run
    <3> QED BY <1>1, <2>1, <3>1 DEF RunTyped, Kinds
  <2>2. CASE r.kind = "pipeline"
    <3>1. run.kind = "pipeline" /\ run.of = r.of /\ run.foreign = r.foreign /\ DOMAIN run = DOMAIN r
        BY <1>1, <1>3, <2>2 DEF RunTyped, PipelineTyped
    <3> HIDE DEF run
    <3> QED BY <1>1, <2>2, <3>1 DEF RunTyped, PipelineTyped, Kinds
  <2> QED BY <2>1, <2>2 DEF r
<1> HIDE DEF run
<1> QED BY <1>2, <1>4, MovesOnTyped, StayTyped DEF GoesOn

LEMMA InstallTypes ==
    ASSUME Typed, UNCHANGED hostsVars, NEW i \in Slots,
           InstallPlaybooks(i) \/ InstallProfiles(i) \/ RegisterEnds(i)
    PROVE  Typed'
<1> DEFINE r == runs[i]
<1>1. RunTyped(r)
    BY DEF Typed, RunsTyped
<1>2. CASE InstallPlaybooks(i)
  <2>1. PICK ok \in SUBSET r.servers :
           /\ installed' = [s \in Servers |-> IF s \in ok THEN r.secret ELSE installed[s]]
           /\ IF ok = {} \/ r.panel = Nil THEN EndsClearing(i)
              ELSE /\ runs' = [runs EXCEPT ![i].at = "profiles", ![i].servers = ok]
                   /\ Unheard /\ UNCHANGED <<fsm, data, mishaps>>
      BY <1>2 DEF InstallPlaybooks
  <2>2. ReachTyped'
      BY <1>2, <2>1 DEF InstallPlaybooks, Typed, ReachTyped, hostsVars
  <2>3. CASE EndsClearing(i)
      BY <2>2, <2>3, EndsTyped
  <2>4. CASE r.panel # Nil /\ runs' = [runs EXCEPT ![i].at = "profiles", ![i].servers = ok]
             /\ Unheard /\ UNCHANGED <<fsm, data, mishaps>>
    <3> DEFINE run == [r EXCEPT !.at = "profiles", !.servers = ok]
    <3>1. runs' = [runs EXCEPT ![i] = run]
        BY <2>4 DEF Typed, RunsTyped
    <3>2. r.kind = "install" /\ InstallTyped(r)
        BY <1>1, <1>2 DEF InstallPlaybooks, RunTyped
    <3>3. /\ run.kind = "install" /\ run.at = "profiles" /\ run.servers = ok /\ run.panel = r.panel
          /\ run.secret = r.secret /\ DOMAIN run = DOMAIN r
        BY <3>2 DEF InstallTyped
    <3> HIDE DEF run
    <3>4. RunTyped(run)
        BY <2>4, <3>2, <3>3 DEF RunTyped, InstallTyped, Kinds
    <3> QED BY <2>2, <2>4, <3>1, <3>4, MovesOnTyped, StayTyped
  <2> QED BY <2>1, <2>3, <2>4
<1>3. CASE InstallProfiles(i)
  <2>1. ReachTyped'
      BY <1>3, HereReach DEF InstallProfiles
  <2>2. CASE Ends(i) /\ fsm' = <<"remnanode", "profile">>
             /\ data' = [NoData EXCEPT !["panel_id"] = r.panel, !["node_addresses"] = r.servers]
    <3> DEFINE d == [NoData EXCEPT !["panel_id"] = r.panel, !["node_addresses"] = r.servers]
    <3>1. /\ d = [k \in Keys |-> d[k]] /\ d["panel_id"] = r.panel /\ d["node_addresses"] = r.servers
          /\ \A k \in Keys \ {"panel_id", "node_addresses"} : d[k] = Absent
        BY DEF NoData, Keys
    <3>2. r.panel \in Panels /\ r.servers \subseteq Servers
        BY <1>1, <1>3 DEF InstallProfiles, RunTyped, InstallTyped
    <3> HIDE DEF d
    <3>3. DataTyped(d) /\ FreshIn(d)
        BY <3>1 DEF DataTyped, FreshIn, Keys
    <3>4. data' = d
        BY <2>2 DEF d
    <3>5. Told'
        BY <2>2, <3>1, <3>2, <3>4 DEF Told, AfterPanel, AfterIp, AfterLogin
    <3>6. Moderate /\ RunsTyped' /\ fsm' \in Positions
        BY <2>2, QuitsTyped DEF Ends, Positions, StablePoints
    <3> QED BY <2>1, <3>3, <3>4, <3>5, <3>6, StepTyped
  <2> QED BY <1>3, <2>1, <2>2, EndsTyped DEF InstallProfiles
<1>4. CASE RegisterEnds(i)
  <2>1. RegisterTyped(r)
      BY <1>1, <1>4 DEF RegisterEnds, RunTyped
  <2>2. \A n \in nodes' : n \in nodes \/ (n.server \in r.servers /\ n.profile = r.profile)
      BY <1>4 DEF RegisterEnds
  <2>3. ReachTyped'
      BY <1>4, <2>1, <2>2 DEF RegisterEnds, RegisterTyped, Typed, ReachTyped, hostsVars
  <2> QED BY <1>4, <2>3, EndsTyped DEF RegisterEnds
<1> QED BY <1>2, <1>3, <1>4

LEMMA HysInstallTypes ==
    ASSUME Typed, UNCHANGED hostsVars, NEW i \in Slots, HysInstallPlaybook(i) \/ HysInstallProfiles(i)
    PROVE  Typed'
<1>1. CASE HysInstallPlaybook(i)
  <2>1. ReachTyped'
      BY <1>1 DEF HysInstallPlaybook, StillHere, deployVars, Typed, ReachTyped, hostsVars
  <2> QED BY <1>1, <2>1, EndsTyped, GoesOnTyped DEF HysInstallPlaybook
<1>2. CASE HysInstallProfiles(i)
  <2>1. ReachTyped'
      BY <1>2, HereReach DEF HysInstallProfiles
  <2>2. CASE Ends(i) /\ fsm' = <<"hysteria", "profile">> /\ UNCHANGED data
    <3>1. Moderate /\ RunsTyped' /\ fsm' \in Positions
        BY <2>2, QuitsTyped DEF Ends, Positions, HysPoints
    <3>2. Told'
        BY <2>2 DEF Told, AfterPanel, AfterIp, AfterLogin
    <3> QED BY <2>1, <2>2, <3>1, <3>2, StepTyped, DataIs
  <2> QED BY <1>2, <2>1, <2>2, EndsTyped DEF HysInstallProfiles
<1> QED BY <1>1, <1>2

LEMMA PipelineTypes ==
    ASSUME Typed, UNCHANGED hostsVars, NEW i \in Slots,
           PipelineDnsGet(i) \/ PipelineDnsPut(i) \/ PipelineCert(i) \/ PipelineProfile(i)
              \/ PipelineNode(i)
    PROVE  Typed'
<1> DEFINE r == runs[i]
<1>1. r.kind = "pipeline" /\ PipelineTyped(r) /\ RunTyped(r)
  <2>1. PipelineDnsPut(i) => InPipeline(i, "dns_put")
      BY DEF PipelineDnsPut
  <2>2. PipelineCert(i) => InPipeline(i, "cert")
      BY DEF PipelineCert
  <2>3. PipelineProfile(i) => InPipeline(i, "profile")
      BY DEF PipelineProfile
  <2>4. r.kind = "pipeline"
      BY <2>1, <2>2, <2>3 DEF PipelineDnsGet, PipelineNode, InPipeline
  <2> QED BY <2>4 DEF Typed, RunsTyped, RunTyped
<1>2. r.of.server \in Servers /\ r.of.domain \in Domains /\ r.of.profile \in Profiles
      /\ r.foreign \subseteq CredentialKeys
    BY <1>1 DEF PipelineTyped
<1>3. ASSUME EndsClearing(i) \/ Refused(i) \/ Breaks(i) \/ (\E at : GoesOn(i, at)), ReachTyped'
      PROVE  Typed'
    BY <1>1, <1>3, EndsTyped, GoesOnTyped
<1>4. CASE PipelineDnsGet(i)
  <2>1. ReachTyped'
      BY <1>4, HereReach DEF PipelineDnsGet
  <2>2. CASE /\ runs' = [runs EXCEPT ![i].at = "dns_put", ![i].found = dns[r.of.domain] # <<>>]
             /\ Unheard /\ UNCHANGED <<fsm, data, mishaps>>
    <3> DEFINE run == [r EXCEPT !.at = "dns_put", !.found = dns[r.of.domain] # <<>>]
    <3>1. runs' = [runs EXCEPT ![i] = run]
        BY <2>2 DEF Typed, RunsTyped
    <3>2. run.kind = "pipeline" /\ run.of = r.of /\ run.foreign = r.foreign /\ DOMAIN run = DOMAIN r
        BY <1>1 DEF PipelineTyped
    <3> HIDE DEF run
    <3>3. RunTyped(run)
        BY <1>1, <3>2 DEF RunTyped, PipelineTyped, Kinds
    <3> QED BY <2>1, <2>2, <3>1, <3>3, MovesOnTyped, StayTyped
  <2> QED BY <1>3, <1>4, <2>1, <2>2 DEF PipelineDnsGet
<1>5. CASE PipelineDnsPut(i)
  <2> DEFINE put == IF runs[i].found THEN [dns EXCEPT ![runs[i].of.domain][1] = runs[i].of.server]
                    ELSE [dns EXCEPT ![runs[i].of.domain] = Append(@, runs[i].of.server)]
  <2>1. /\ UNCHANGED <<installed, certs, certPath, nodes, pipelines, borrowed>>
        /\ \/ Refused(i) /\ UNCHANGED dns
           \/ Breaks(i) /\ dns' \in {dns, put}
           \/ GoesOn(i, "cert") /\ dns' = put
      BY <1>5 DEF PipelineDnsPut
  <2>2. DOMAIN put = DOMAIN dns
      OBVIOUS
  <2> HIDE DEF put
  <2>3. dns' = dns \/ dns' = put
      BY <2>1
  <2>4. DOMAIN dns' = Domains
      BY <2>2, <2>3 DEF Typed, ReachTyped
  <2>5. ReachTyped'
      BY <2>1, <2>4 DEF Typed, ReachTyped, hostsVars
  <2> QED BY <1>3, <2>1, <2>5
<1>6. CASE PipelineCert(i)
  <2>1. DOMAIN installed' = Servers
      BY <1>6 DEF PipelineCert, Typed, ReachTyped
  <2>2. certs' \subseteq Servers \X Domains
      BY <1>2, <1>6 DEF PipelineCert, Typed, ReachTyped
  <2>3. borrowed' \subseteq Servers \X CredentialKeys
      BY <1>2, <1>6 DEF PipelineCert, Typed, ReachTyped
  <2>4. ReachTyped'
      BY <1>6, <2>1, <2>2, <2>3 DEF PipelineCert, Typed, ReachTyped, hostsVars
  <2>5. CASE runs' = [runs EXCEPT ![i] = NoRun] /\ UNCHANGED <<fsm, data, plan, talk, mixed, overlaps>>
    <3>1. Moderate
        BY <2>5 DEF Moderate, Onward
    <3> QED BY <2>4, <2>5, <3>1, QuitsTyped, StayTyped
  <2> QED BY <1>3, <1>6, <2>4, <2>5 DEF PipelineCert
<1>7. CASE PipelineProfile(i)
  <2>1. DOMAIN certPath' = Profiles
      BY <1>7 DEF PipelineProfile, Typed, ReachTyped
  <2>2. ReachTyped'
      BY <1>7, <2>1 DEF PipelineProfile, Typed, ReachTyped, hostsVars
  <2> QED BY <1>3, <1>7, <2>2 DEF PipelineProfile
<1>8. CASE PipelineNode(i)
  <2>1. \A n \in nodes' : n \in nodes \/ (n.server = r.of.server /\ n.profile = r.of.profile)
      BY <1>8 DEF PipelineNode
  <2>2. ReachTyped'
      BY <1>2, <1>8, <2>1 DEF PipelineNode, Typed, ReachTyped, hostsVars
  <2> QED BY <1>3, <1>8, <2>2 DEF PipelineNode
<1> QED BY <1>4, <1>5, <1>6, <1>7, <1>8

LEMMA ChatTypes == ASSUME Typed, UNCHANGED deployVars, UNCHANGED hostsVars, ChatNext PROVE Typed'
<1>1. ReachTyped'
    BY HereReach DEF StillHere
<1>2. CASE StartHandler
    BY <1>1, <1>2, DropTyped DEF StartHandler
<1>3. ASSUME NEW i \in Slots, LookupEnds(i) PROVE Typed'
  <2> DEFINE to == runs[i].to
             upd == runs[i].upd
  <2>1. LookupTyped(runs[i])
      BY <1>3 DEF LookupEnds, Typed, RunsTyped, RunTyped
  <2>2. CASE Ends(i) /\ fsm' = to /\ data' = Update(upd)
    <3>1. UpdTyped(upd) /\ FreshIn(Update(upd))
      <4>1. ASSUME NEW p \in Profiles, upd = [profile |-> p]
            PROVE  UpdTyped(upd) /\ DOMAIN upd \cap {"password", "become_pass"} = {}
          BY <4>1 DEF UpdTyped
      <4>2. ASSUME upd = [zone |-> upd.zone]
            PROVE  UpdTyped(upd) /\ DOMAIN upd \cap {"password", "become_pass"} = {}
          BY <4>2 DEF UpdTyped
      <4>3. ASSUME NEW p \in Panels, NEW T \in SUBSET Tags, upd = [panel_id |-> p, tags |-> T]
            PROVE  UpdTyped(upd) /\ DOMAIN upd \cap {"password", "become_pass"} = {}
          BY <4>3 DEF UpdTyped
      <4>4. \/ \E p \in Profiles : upd = [profile |-> p]
            \/ upd = [zone |-> upd.zone]
            \/ \E p \in Panels : \E T \in SUBSET Tags : upd = [panel_id |-> p, tags |-> T]
          BY <2>1 DEF LookupTyped
      <4> HIDE DEF upd
      <4>5. UpdTyped(upd) /\ DOMAIN upd \cap {"password", "become_pass"} = {}
          BY <4>1, <4>2, <4>3, <4>4
      <4> QED BY <4>5, FreshUpdate
    <3>2. fsm' \in Positions /\ Told'
      <4>1. to \in {<<"hysteria", "zone">>, <<"hysteria", "subdomain">>, <<"hosts", "tag">>}
          BY <2>1 DEF LookupTyped
      <4>2. to \in Positions
          BY <4>1 DEF Positions, HysPoints, Previous
      <4> HIDE DEF to
      <4>3. Told'
          BY <2>2, <4>1 DEF Told, AfterPanel, AfterIp, AfterLogin, Presets
      <4> QED BY <2>2, <4>2, <4>3
    <3>3. Moderate /\ RunsTyped'
        BY <2>2, QuitsTyped DEF Ends
    <3> HIDE DEF upd
    <3> QED BY <1>1, <2>2, <3>1, <3>2, <3>3, StepTyped, UpdateTyped DEF Typed
  <2> QED BY <1>1, <1>3, <2>2, EndsTyped DEF LookupEnds
<1> QED BY <1>2, <1>3 DEF ChatNext

-----------------------------------------------------------------------------
(* The hosts wizard.                                                        *)

LEMMA HostsReach == ASSUME Typed, UNCHANGED deployVars, UNCHANGED <<hostTag, retags>> PROVE ReachTyped'
BY ReachStays DEF deployVars

\* What the hosts wizard stores is none of what has a type.
HostsUpd(upd) ==
    DOMAIN upd \subseteq {"selected_tag", "source", "distribution", "set_id", "auto_ip", "auto_each_ips"}

LEMMA HostsUpdate ==
    ASSUME Typed, NEW STATE upd, HostsUpd(upd) PROVE UpdTyped(upd) /\ FreshIn(Update(upd))
BY FreshUpdate, PlainUpd DEF HostsUpd

LEMMA HostsReply ==
    ASSUME Typed, ReachTyped', fsm[1] = "hosts", NEW STATE to, to \in DOMAIN Previous, NEW STATE upd,
           HostsUpd(upd), Reply(to, upd)
    PROVE  Typed'
<1>1. <<fsm[1], to>> \in Positions
    BY DEF Positions
<1>2. fsm'[1] = "hosts"
    BY DEF Reply
<1>3. Told'
    BY <1>2, ToldElsewhere DEF Presets
<1> QED BY <1>1, <1>3, HostsUpdate, ReplyTyped

LEMMA HostsRaises ==
    ASSUME Typed, ReachTyped', fsm[1] = "hosts", NEW STATE handler, NEW STATE upd, HostsUpd(upd),
           Raises(handler, upd)
    PROVE  Typed'
<1>1. fsm'[1] = "hosts"
    BY DEF Raises
<1>2. Told'
    BY <1>1, ToldElsewhere DEF Presets
<1> QED BY <1>2, HostsUpdate, RaisesTyped

LEMMA HostsStarts ==
    ASSUME Typed, ReachTyped', fsm[1] = "hosts", NEW STATE run, RunTyped(run), NEW STATE upd,
           HostsUpd(upd), Starts(run, upd)
    PROVE  Typed'
<1>1. fsm'[1] = "hosts"
    BY DEF Starts
<1>2. Told'
    BY <1>1, ToldElsewhere DEF Presets
<1> QED BY <1>2, HostsUpdate, StartsTyped

LEMMA HostsAnswersTyped ==
    ASSUME Typed, UNCHANGED deployVars,
           \/ HostsMenu \/ HostsPanelChosen \/ TagChosen \/ TopManual \/ TopIpsets
           \/ \E source \in {"auto", "manual"} : SourceChosen(source)
           \/ \E distribution \in {"same", "each"} : DistChosen(distribution)
    PROVE  Typed'
<1>1. AsShown /\ ReachTyped'
  <2>1. AsShown
      BY DEF HostsMenu, HostsPanelChosen, TagChosen, TopManual, TopIpsets, SourceChosen, DistChosen
  <2> QED BY <2>1, HostsReach DEF AsShown, hostsVars
<1>2. HostsUpd(Nothing)
    BY DEF HostsUpd, Nothing
<1>3. \A step : In(step) => fsm[1] = "hosts"
    BY DEF In
<1>4. CASE HostsMenu
    BY <1>1, <1>4, EntersTyped DEF HostsMenu, Wizards
<1>5. CASE HostsPanelChosen
  <2> DEFINE T == {hostTag[h] : h \in Hosts}
  <2>1. T \subseteq Tags
      BY DEF Typed, ReachTyped
  <2> HIDE DEF T
  <2>2. ASSUME NEW p \in Panels, Starts(Lookup(<<"hosts", "tag">>, [panel_id |-> p, tags |-> T]), Nothing)
        PROVE  Typed'
    <3>1. RunTyped(Lookup(<<"hosts", "tag">>, [panel_id |-> p, tags |-> T]))
        BY <2>1, LookupIs
    <3> QED BY <1>1, <2>2, <3>1, StartsNothing
  <2> QED BY <1>5, <2>2 DEF HostsPanelChosen, T
<1>6. CASE TagChosen
  <2>1. fsm[1] = "hosts" /\ "mode" \in DOMAIN Previous
      BY <1>3, <1>6 DEF TagChosen, Previous
  <2>2. ASSUME NEW tag, Reply("mode", [selected_tag |-> tag]) PROVE Typed'
    <3> DEFINE upd == [selected_tag |-> tag]
    <3>1. HostsUpd(upd)
        BY DEF HostsUpd
    <3> HIDE DEF upd
    <3>2. Reply("mode", upd)
        BY <2>2 DEF upd
    <3> QED BY <1>1, <2>1, <3>1, <3>2, HostsReply
  <2> QED BY <1>1, <1>2, <1>6, <2>1, <2>2, HostsRaises DEF TagChosen
<1>7. CASE TopManual \/ TopIpsets
  <2>1. fsm[1] = "hosts" /\ {"address", "source"} \subseteq DOMAIN Previous
      BY <1>3, <1>7 DEF TopManual, TopIpsets, Previous
  <2> QED BY <1>1, <1>2, <1>7, <2>1, HostsRaises, HostsReply DEF TopManual, TopIpsets
<1>8. ASSUME NEW source, SourceChosen(source) PROVE Typed'
  <2> DEFINE upd == [source |-> source]
  <2>1. HostsUpd(upd) /\ fsm[1] = "hosts" /\ "distribution" \in DOMAIN Previous
      BY <1>3, <1>8 DEF HostsUpd, SourceChosen, Previous
  <2> HIDE DEF upd
  <2>2. Reply("distribution", upd)
      BY <1>8 DEF SourceChosen, upd
  <2> QED BY <1>1, <2>1, <2>2, HostsReply
<1>9. ASSUME NEW distribution, DistChosen(distribution) PROVE Typed'
  <2> DEFINE upd == [distribution |-> distribution]
  <2>1. HostsUpd(upd) /\ fsm[1] = "hosts" /\ "ipset" \in DOMAIN Previous
      BY <1>3, <1>9 DEF HostsUpd, DistChosen, Previous
  <2> HIDE DEF upd
  <2>2. Reply("ipset", upd)
      BY <1>9 DEF DistChosen, upd
  <2> QED BY <1>1, <2>1, <2>2, HostsReply
<1> QED BY <1>4, <1>5, <1>6, <1>7, <1>8, <1>9

\* What a handler that applies does: it raises, drops the dialogue, or goes to work.
ApplyRun(how, promise, early) ==
    [kind |-> "apply", at |-> "list", tag |-> data["selected_tag"], how |-> how, early |-> early,
     promise |-> promise, pairs |-> {}]

ApplyBegins(run) ==
    /\ Heard /\ UNCHANGED missing /\ AsShown
    /\ Clear \/ UNCHANGED <<fsm, data>>
    /\ \E i \in Slots : runs[i] = NoRun /\ runs' = [runs EXCEPT ![i] = run]

LEMMA ApplyRunTyped ==
    ASSUME NEW STATE how, NEW STATE promise, NEW STATE early PROVE RunTyped(ApplyRun(how, promise, early))
<1>1. /\ ApplyRun(how, promise, early).kind = "apply"
      /\ DOMAIN ApplyRun(how, promise, early) =
            {"kind", "at", "tag", "how", "early", "promise", "pairs"}
    BY DEF ApplyRun
<1> QED BY <1>1 DEF RunTyped, Kinds

LEMMA AppliesTyped ==
    ASSUME Typed, UNCHANGED deployVars, fsm[1] = "hosts", NEW STATE handler, NEW STATE keys,
           NEW STATE how, NEW STATE promise, NEW STATE early,
           Applies(handler, keys, how, promise, early)
    PROVE  Typed'
<1>1. HostsUpd(Nothing)
    BY DEF HostsUpd, Nothing
<1>2. UNCHANGED <<hostTag, retags>>
    BY DEF Applies, AsShown, Unshown, hostsVars
<1>3. ReachTyped'
    BY <1>2, HostsReach
<1>4. ASSUME ApplyBegins(ApplyRun(how, promise, early)) PROVE Typed'
  <2>1. Moderate
      BY <1>4, HeardIs DEF ApplyBegins
  <2>2. RunsTyped'
      BY <1>4, <2>1, ApplyRunTyped, RunsPut DEF ApplyBegins, Typed, Moderate
  <2> QED BY <1>3, <1>4, <2>1, <2>2, ClearTyped, StayTyped DEF ApplyBegins
<1>5. \/ Raises(handler, Nothing)
      \/ Drop
      \/ ApplyBegins(ApplyRun(how, promise, early))
    BY DEF Applies, ApplyBegins, ApplyRun
<1> QED BY <1>1, <1>3, <1>4, <1>5, HostsRaises, DropTyped

LEMMA ConfirmsTyped ==
    ASSUME Typed, UNCHANGED deployVars, GotAddress \/ IpSelected \/ ManualBulkConfirm \/ AutoConfirm
    PROVE  Typed'
<1>1. fsm[1] = "hosts"
  <2>1. In("address") \/ In("single") \/ In("confirm_bulk") \/ In("confirm_auto")
      BY Zenon DEF GotAddress, IpSelected, ManualBulkConfirm, AutoConfirm
  <2> QED BY <2>1 DEF In
<1>2. CASE GotAddress
    BY <1>1, <1>2, AppliesTyped DEF GotAddress
<1>3. CASE IpSelected
    BY <1>1, <1>3, AppliesTyped DEF IpSelected
<1>4. CASE ManualBulkConfirm
    BY <1>1, <1>4, AppliesTyped DEF ManualBulkConfirm
<1>5. CASE AutoConfirm
    BY <1>1, <1>5, AppliesTyped DEF AutoConfirm
<1> QED BY <1>2, <1>3, <1>4, <1>5

\* The run that ipset_chosen starts.
SetRun(kind, set) ==
    [kind |-> kind, at |-> "list", tag |-> data["selected_tag"], set |-> set,
     distribution |-> data["distribution"], targets |-> <<>>]

LEMMA SetRunTyped ==
    ASSUME NEW kind \in {"preview", "search"}, NEW set \in IpSets PROVE RunTyped(SetRun(kind, set))
<1>1. SetRun(kind, set).kind = kind /\ SetRun(kind, set).set = set
      /\ DOMAIN SetRun(kind, set) = {"kind", "at", "tag", "set", "distribution", "targets"}
    BY DEF SetRun
<1> QED BY <1>1 DEF RunTyped, Kinds

LEMMA IpsetIs ==
    ASSUME IpsetChosen
    PROVE  /\ fsm = <<"hosts", "ipset">> /\ AsShown
           /\ \E set \in IpSets :
                 LET upd == [set_id |-> set]
                 IN  \/ Lacks({"source", "distribution"}) /\ Raises("ipset_chosen", upd)
                     \/ data["source"] = "manual" /\ data["distribution"] = "same" /\ Reply("single", upd)
                     \/ Lacks({"panel_id", "selected_tag"}) /\ Raises("ipset_chosen", upd)
                     \/ /\ ~Lacks({"source", "distribution"}) /\ ~Lacks({"panel_id", "selected_tag"})
                        /\ ~(data["source"] = "manual" /\ data["distribution"] = "same")
                        /\ \E kind \in {"preview", "search"} :
                              Starts(SetRun(kind, set), upd)
<1>1. PICK set \in IpSets :
         LET upd == [set_id |-> set]
             goes(kind) ==
                 Starts([kind |-> kind, at |-> "list", tag |-> data["selected_tag"], set |-> set,
                         distribution |-> data["distribution"], targets |-> <<>>], upd)
         IN  IF Lacks({"source", "distribution"}) THEN Raises("ipset_chosen", upd)
             ELSE IF data["source"] = "manual" /\ data["distribution"] = "same"
             THEN Reply("single", upd)
             ELSE IF Lacks({"panel_id", "selected_tag"}) THEN Raises("ipset_chosen", upd)
             ELSE /\ data["panel_id"] \in Panels
                  /\ goes(IF data["source"] = "manual" THEN "preview" ELSE "search")
    BY DEF IpsetChosen
<1> DEFINE upd == [set_id |-> set]
           kind == IF data["source"] = "manual" THEN "preview" ELSE "search"
<1>2. kind \in {"preview", "search"}
    OBVIOUS
<1>3. \/ Lacks({"source", "distribution"}) /\ Raises("ipset_chosen", upd)
      \/ data["source"] = "manual" /\ data["distribution"] = "same" /\ Reply("single", upd)
      \/ Lacks({"panel_id", "selected_tag"}) /\ Raises("ipset_chosen", upd)
      \/ /\ ~Lacks({"source", "distribution"}) /\ ~Lacks({"panel_id", "selected_tag"})
         /\ ~(data["source"] = "manual" /\ data["distribution"] = "same")
         /\ Starts(SetRun(kind, set), upd)
    BY <1>1 DEF SetRun
<1>4. fsm = <<"hosts", "ipset">> /\ AsShown
    BY DEF IpsetChosen, In
<1> HIDE DEF kind
<1> QED BY <1>2, <1>3, <1>4

LEMMA IpsetTyped == ASSUME Typed, UNCHANGED deployVars, IpsetChosen PROVE Typed'
<1>1. fsm[1] = "hosts" /\ AsShown
    BY IpsetIs
<1>2. ReachTyped'
    BY <1>1, HostsReach DEF AsShown, hostsVars
<1>3. ASSUME NEW set \in IpSets, NEW upd, upd = [set_id |-> set],
             \/ Raises("ipset_chosen", upd) \/ Reply("single", upd)
             \/ \E kind \in {"preview", "search"} : Starts(SetRun(kind, set), upd)
      PROVE  Typed'
  <2>1. HostsUpd(upd) /\ "single" \in DOMAIN Previous
      BY <1>3 DEF HostsUpd, Previous
  <2>2. ASSUME NEW kind \in {"preview", "search"}, Starts(SetRun(kind, set), upd) PROVE Typed'
      BY <1>1, <1>2, <2>1, <2>2, SetRunTyped, HostsStarts
  <2> QED BY <1>1, <1>2, <1>3, <2>1, <2>2, HostsRaises, HostsReply
<1> QED BY <1>3, IpsetIs

LEMMA HostsBackTyped == ASSUME Typed, UNCHANGED deployVars, HostsBack PROVE Typed'
<1>1. ReachTyped'
    BY HostsReach DEF HostsBack, Unshown
<1>2. CASE fsm[1] = "hosts" /\ In("panel")
    BY <1>1, <1>2, DropTyped DEF HostsBack
<1>3. CASE fsm[1] = "hosts" /\ ~In("panel")
  <2>1. fsm \in {"hosts"} \X DOMAIN Previous
      BY <1>3 DEF Typed, ChatTyped, Positions, NoState
  <2>2. fsm[2] \in DOMAIN Previous /\ fsm[2] # "panel"
      BY <1>3, <2>1 DEF In
  <2>3. Previous[fsm[2]] \in DOMAIN Previous
      BY <2>2 DEF Previous
  <2>4. HostsUpd(Nothing) /\ Reply(Previous[fsm[2]], Nothing)
      BY <1>3 DEF HostsUpd, Nothing, HostsBack
  <2> QED BY <1>1, <1>3, <2>3, <2>4, HostsReply
<1>4. CASE fsm[1] # "hosts"
  <2>1. fsm' = <<"hosts", "ipset">> /\ UNCHANGED <<data, runs>>
      BY <1>4 DEF HostsBack
  <2>2. Moderate
      BY <1>4 DEF HostsBack, Meets, Moderate, Onward
  <2>3. RunsTyped'
      BY <2>1, <2>2, RunsStay DEF Moderate, Typed
  <2>4. fsm' \in Positions /\ Told'
      BY <2>1, ToldElsewhere DEF Positions, Previous, Presets
  <2> QED BY <1>1, <2>1, <2>2, <2>3, <2>4, StepTyped, DataIs
<1> QED BY <1>2, <1>3, <1>4

LEMMA RetagTyped == ASSUME Typed, UNCHANGED deployVars, PanelRetags PROVE Typed'
<1>1. PICK h \in Hosts : \E tag \in Tags \ {hostTag[h]} : hostTag' = [hostTag EXCEPT ![h] = tag]
    BY DEF PanelRetags
<1>2. hostTag' \in [Hosts -> Tags] /\ retags' \in Nat
    BY <1>1 DEF PanelRetags, Typed, ReachTyped
<1>3. ReachTyped'
    BY <1>2 DEF Typed, ReachTyped, deployVars
<1>4. Moderate /\ UNCHANGED <<runs, fsm, data>>
    BY DEF PanelRetags, Moderate, Onward
<1> QED BY <1>3, <1>4, RunsStay, StayTyped DEF Typed, Moderate

LEMMA HostsRunsTyped ==
    ASSUME Typed, UNCHANGED deployVars, NEW i \in Slots, HostsRun(i) PROVE Typed'
<1> DEFINE r == runs[i]
<1>1. RunTyped(r) /\ runs = [j \in Slots |-> runs[j]]
    BY DEF Typed, RunsTyped
<1>2. ReachTyped'
  <2>1. UNCHANGED <<hostTag, retags>>
      BY DEF HostsRun, ApplyLists, ApplyPatches, ManualBulkPreview, SearchLists, SearchEnds, Unshown,
             AsShown, hostsVars
  <2> QED BY <2>1, HostsReach
<1>3. ASSUME Ends(i), UNCHANGED <<fsm, data>> PROVE Typed'
    BY <1>2, <1>3, QuitsTyped, StayTyped DEF Ends
<1>4. ASSUME Fails(i), UNCHANGED <<fsm, data>> PROVE Typed'
    BY <1>2, <1>4, QuitsTyped, StayTyped DEF Fails
<1>5. ASSUME NEW STATE run, RunTyped(run), runs' = [runs EXCEPT ![i] = run], Unheard,
             Clear \/ UNCHANGED <<fsm, data>>
      PROVE  Typed'
    BY <1>2, <1>5, MovesOnTyped, ClearTyped, StayTyped
<1>6. CASE ApplyLists(i)
  <2>1. CASE /\ runs' = [runs EXCEPT ![i].at = "patch", ![i].pairs = Pairs(r.how, Targets(r.tag))]
             /\ Unheard /\ (Clear \/ UNCHANGED <<fsm, data>>)
    <3> DEFINE pairs == Pairs(r.how, Targets(r.tag))
               run == [r EXCEPT !.at = "patch", !.pairs = pairs]
    <3>1. runs' = [runs EXCEPT ![i] = run]
        BY <1>1, <2>1
    <3> HIDE DEF pairs
    <3>2. r.kind = "apply" /\ DOMAIN r = {"kind", "at", "tag", "how", "early", "promise", "pairs"}
        BY <1>1, <1>6 DEF ApplyLists, RunTyped
    <3>3. run.kind = "apply" /\ DOMAIN run = {"kind", "at", "tag", "how", "early", "promise", "pairs"}
        BY <3>2
    <3> HIDE DEF run
    <3>4. RunTyped(run)
        BY <3>3 DEF RunTyped, Kinds
    <3> QED BY <1>5, <2>1, <3>1, <3>4
  <2> QED BY <1>2, <1>4, <1>6, <2>1, EndsTyped DEF ApplyLists
<1>7. CASE ApplyPatches(i)
  <2>1. CASE runs' = [runs EXCEPT ![i] = NoRun] /\ UNCHANGED <<plan, talk, mixed, overlaps, fsm, data>>
    <3>1. Moderate
        BY <2>1 DEF Moderate, Onward
    <3> QED BY <1>2, <2>1, <3>1, QuitsTyped, StayTyped
  <2> QED BY <1>3, <1>4, <1>7, <2>1 DEF ApplyPatches
<1>8. ASSUME Ends(i), NEW to \in DOMAIN Previous, fsm' = <<"hosts", to>>,
             NEW STATE upd, HostsUpd(upd), data' = Update(upd)
      PROVE  Typed'
  <2>1. Moderate /\ RunsTyped'
      BY <1>8, QuitsTyped DEF Ends
  <2>2. fsm' \in Positions /\ Told'
      BY <1>8, ToldElsewhere DEF Positions, Presets
  <2> QED BY <1>2, <1>8, <2>1, <2>2, HostsUpdate, UpdateTyped, StepTyped DEF Typed
<1>9. CASE ManualBulkPreview(i)
  <2>1. CASE Ends(i) /\ fsm' = <<"hosts", "confirm_bulk">> /\ UNCHANGED data
    <3>1. "confirm_bulk" \in DOMAIN Previous /\ HostsUpd(Nothing) /\ data' = Update(Nothing)
        BY <2>1, NothingIs DEF Previous, HostsUpd, Nothing, Typed
    <3> QED BY <1>8, <2>1, <3>1
  <2> QED BY <1>2, <1>3, <1>9, <2>1, EndsTyped DEF ManualBulkPreview
<1>10. CASE SearchLists(i)
  <2>1. CASE /\ runs' = [runs EXCEPT ![i].at = "find", ![i].targets = Targets(r.tag)]
             /\ Unheard /\ UNCHANGED <<fsm, data>>
    <3> DEFINE targets == Targets(r.tag)
               run == [r EXCEPT !.at = "find", !.targets = targets]
    <3>1. runs' = [runs EXCEPT ![i] = run]
        BY <1>1, <2>1
    <3> HIDE DEF targets
    <3>2. /\ r.kind = "search" /\ r.set \in IpSets
          /\ DOMAIN r = {"kind", "at", "tag", "set", "distribution", "targets"}
        BY <1>1, <1>10 DEF SearchLists, RunTyped
    <3>3. /\ run.kind = "search" /\ run.set \in IpSets
          /\ DOMAIN run = {"kind", "at", "tag", "set", "distribution", "targets"}
        BY <3>2
    <3> HIDE DEF run
    <3>4. RunTyped(run)
        BY <3>3 DEF RunTyped, Kinds
    <3> QED BY <1>5, <2>1, <3>1, <3>4
  <2> QED BY <1>2, <1>3, <1>10, <2>1, EndsTyped DEF SearchLists
<1>11. CASE SearchEnds(i)
  <2> DEFINE same == r.distribution = "same"
             found(good) == IF same THEN [auto_ip |-> good[1]] ELSE [auto_each_ips |-> good]
  <2>1. \A good : HostsUpd(found(good))
      BY DEF HostsUpd
  <2> HIDE DEF found
  <2>2. Ends(i) /\ \/ UNCHANGED <<fsm, data>>
                   \/ fsm' = <<"hosts", "confirm_auto">> /\ \E good : data' = Update(found(good))
      BY <1>11 DEF SearchEnds, found
  <2>3. "confirm_auto" \in DOMAIN Previous
      BY DEF Previous
  <2> QED BY <1>3, <1>8, <2>1, <2>2, <2>3
<1> QED BY <1>6, <1>7, <1>9, <1>10, <1>11 DEF HostsRun

-----------------------------------------------------------------------------
(* The types are invariant.                                                 *)

LEMMA TypedInit == Init => Typed
<1> SUFFICES ASSUME Init PROVE Typed
    OBVIOUS
<1>1. plan \in Plans /\ talk = 0 /\ overlaps = 0 /\ fsm = NoState /\ data = NoData
      /\ runs = [i \in Slots |-> NoRun] /\ mixed = {}
    BY DEF Init, ChatInit
<1>2. data = [k \in Keys |-> data[k]] /\ \A k \in Keys : data[k] = Absent
    BY <1>1 DEF NoData
<1>3. ChatTyped
  <2>1. fsm \in Positions
      BY <1>1 DEF Positions
  <2>2. Len(plan.wizards) \in Nat
      BY <1>1, ChatAssumption
  <2> QED BY <1>1, <1>2, <2>1, <2>2 DEF ChatTyped, Keys
<1>4. RunsTyped
    BY <1>1, NoRunTyped DEF RunsTyped
<1>5. ReachTyped
  <2>1. hostTag \in [Hosts -> Tags]
    <3>1. FirstTag = [h \in Hosts |-> FirstTag[h]]
        BY HostsAssumption
    <3> QED BY <3>1 DEF Init, HostsInit, Tags
  <2> QED BY <2>1 DEF Init, DeployInit, HostsInit, ReachTyped
<1>6. Told
    BY <1>1 DEF Told, NoState, Presets
<1>7. Fresh
    BY <1>2 DEF Fresh, FreshIn, Keys
<1> QED BY <1>3, <1>4, <1>5, <1>6, <1>7 DEF Typed

LEMMA TypedNext == Typed /\ [Next]_vars => Typed'
<1> SUFFICES ASSUME Typed, [Next]_vars PROVE Typed'
    OBVIOUS
<1>1. CASE DeployNext /\ UNCHANGED hostsVars
  <2>1. ASSUME NEW i \in Slots, DeployRun(i) PROVE Typed'
      BY <1>1, <2>1, InstallTypes, HysInstallTypes, PipelineTypes DEF DeployRun
  <2> QED BY <1>1, <2>1, DeployStepsTyped DEF DeployNext
<1>2. CASE HostsNext /\ UNCHANGED deployVars
  <2>1. CASE HostsStep
      BY <1>2, <2>1, HostsAnswersTyped, ConfirmsTyped, IpsetTyped, HostsBackTyped DEF HostsStep
  <2> QED BY <1>2, <2>1, RetagTyped, HostsRunsTyped DEF HostsNext
<1>3. CASE ChatNext /\ UNCHANGED <<deployVars, hostsVars>>
    BY <1>3, ChatTypes
<1>4. CASE UNCHANGED vars
  <2>1. UNCHANGED <<fsm, data, runs, plan, talk, mixed, overlaps>> /\ UNCHANGED deployVars
        /\ UNCHANGED hostsVars
      BY <1>4 DEF vars, chatVars
  <2>2. Moderate
      BY <2>1 DEF Moderate, Onward
  <2> QED BY <2>1, <2>2, HereReach, RunsStay, StayTyped DEF StillHere, Typed, Moderate
<1> QED BY <1>1, <1>2, <1>3, <1>4 DEF Next

LEMMA TypedIs == Typed => TypeOK
<1> SUFFICES ASSUME Typed PROVE TypeOK
    OBVIOUS
<1>1. fsm \in (Wizards \cup {"none"}) \X Steps
  <2>1. StablePoints \cup HysPoints \cup DOMAIN Previous \subseteq Steps
      BY DEF StablePoints, HysPoints, Previous, Steps
  <2>2. fsm \in Positions
      BY DEF Typed, ChatTyped
  <2> QED BY <2>1, <2>2 DEF Positions, NoState, Wizards, Steps
<1>2. ChatTypeOK
    BY <1>1 DEF ChatTypeOK, Typed, ChatTyped, RunsTyped
<1> QED BY <1>2 DEF TypeOK, Typed, ReachTyped, CredentialKeys

\* The chat, the handlers and what they leave behind keep their types: an answer is stored
\* under the question that was asked, a handler at work has what its kind needs, and the
\* FSM state is a step of a wizard, whichever handlers share the chat.
THEOREM TypesKept == Spec => []TypeOK
<1>1. Spec => []Typed
    BY TypedInit, TypedNext, PTL DEF Spec
<1> QED BY <1>1, TypedIs, PTL

-----------------------------------------------------------------------------
(* The servers that are claimed.                                            *)

LEMMA SureIsClaimed == Sure \subseteq Claimed
<1>1. DataSure \subseteq DataClaims
    BY DEF DataSure, DataClaims, AfterIp, AfterLogin
<1>2. \A r : SureOf(r) \subseteq ClaimsOf(r)
    BY DEF SureOf, ClaimsOf
<1> QED BY <1>1, <1>2 DEF Sure, Claimed

LEMMA ClaimsStay ==
    ASSUME Typed, Claims, Onward, DataClaims' \subseteq Claimed, DataSure' \subseteq Sure,
           Registered' \subseteq Sure,
           \A j \in Slots : ClaimsOf(runs'[j]) \subseteq Claimed /\ SureOf(runs'[j]) \subseteq Sure,
           fsm'[1] = "remnanode" /\ fsm'[2] \in {"panel", "ip"} =>
              \/ talk' = talk + 1
              \/ talk' = talk /\ fsm[1] = "remnanode" /\ fsm[2] \in {"panel", "ip"},
           \A c \in Sure : installed'[c[1]] = installed[c[1]]
    PROVE  Claims'
<1>1. Claimed' \subseteq Claimed
    BY SureIsClaimed DEF Claimed
<1>2. Sure' \subseteq Sure
    BY DEF Sure
<1>3. talk \in Nat /\ plan' = plan /\ talk' \in {talk, talk + 1}
    BY ChatAssumption DEF Typed, ChatTyped, Onward
<1>4. \A c \in Claimed : c[1][1] \in 1..talk
    BY DEF Claims
<1>5. \A c \in Claimed' : c[1] \in Servers /\ c[1][1] \in 1..talk' /\ plan'.wizards[c[1][1]] = "remnanode"
    BY <1>1, <1>3 DEF Claims
<1>6. \A c, d \in Claimed' : c[1] = d[1] => c[2] = d[2]
    BY <1>1 DEF Claims
<1>7. fsm'[1] = "remnanode" /\ fsm'[2] \in {"panel", "ip"} => \A c \in Claimed' : c[1][1] # talk'
    BY <1>1, <1>3, <1>4 DEF Claims
<1>8. \A c \in Sure' : c[2] \in Panels /\ installed'[c[1]] = c[2]
    BY <1>2 DEF Claims
<1> QED BY <1>5, <1>6, <1>7, <1>8 DEF Claims

\* A step after which the chat claims no more than before.
ChatKept ==
    \/ UNCHANGED <<fsm, data>> /\ talk' = talk
    \/ fsm'[1] # "remnanode"
    \/ fsm' = <<"remnanode", "panel">> /\ talk' = talk + 1
    \/ fsm = <<"remnanode", "panel">> /\ fsm' = <<"remnanode", "ip">> /\ talk' = talk
    \/ /\ fsm[1] = "remnanode" /\ fsm[2] \in AfterIp /\ fsm'[1] = "remnanode" /\ fsm'[2] \in AfterIp
       /\ data'["ips"] = data["ips"] /\ data'["panel_id"] = data["panel_id"]

LEMMA ChatKeeps ==
    ASSUME ChatKept
    PROVE  /\ DataClaims' \subseteq DataClaims /\ DataSure' \subseteq DataSure
           /\ fsm'[1] = "remnanode" /\ fsm'[2] \in {"panel", "ip"} =>
                 \/ talk' = talk + 1
                 \/ talk' = talk /\ fsm[1] = "remnanode" /\ fsm[2] \in {"panel", "ip"}
BY DEF ChatKept, DataClaims, DataSure, AfterIp, AfterLogin

\* A handler that starts or goes on claims nothing.
Claimless == \A j \in Slots : runs'[j] = runs[j] \/ runs'[j].kind \notin {"install", "register"}

LEMMA ClaimlessRuns ==
    ASSUME Claimless
    PROVE  \A j \in Slots : ClaimsOf(runs'[j]) \subseteq Claimed /\ SureOf(runs'[j]) \subseteq Sure
BY DEF Claimless, ClaimsOf, SureOf, Claimed, Sure

\* A step that leaves the claims, the panel and the servers as they are.
Bystanding == Onward /\ ChatKept /\ Claimless

LEMMA BystandingClaims ==
    ASSUME Typed, Claims, Bystanding, UNCHANGED <<installed, nodes>> PROVE Claims'
<1>1. DataClaims' \subseteq Claimed /\ DataSure' \subseteq Sure /\ Registered' \subseteq Sure
    BY ChatKeeps DEF Bystanding, Claimed, Sure, Registered
<1> QED BY <1>1, ChatKeeps, ClaimlessRuns, ClaimsStay DEF Bystanding

LEMMA PutBystands ==
    ASSUME RunsTyped, NEW i \in Slots, NEW STATE run, runs' = [runs EXCEPT ![i] = run],
           run.kind \notin {"install", "register"}
    PROVE  Claimless
BY DEF RunsTyped, Claimless

LEMMA DropBystands == ASSUME Drop PROVE Bystanding
BY HeardIs DEF Drop, Clear, NoState, Bystanding, Moderate, Claimless, ChatKept

LEMMA EndsBystand ==
    ASSUME Typed, NEW i \in Slots, EndsClearing(i) \/ Refused(i) \/ Breaks(i)
    PROVE  Bystanding
<1>1. /\ runs' = [runs EXCEPT ![i] = NoRun] /\ Moderate
      /\ Clear \/ UNCHANGED <<fsm, data>>
    BY UnheardIs DEF EndsClearing, Ends, Refused, Breaks, Fails, Quits
<1>2. Claimless
    BY <1>1, PutBystands DEF NoRun, Typed
<1> QED BY <1>1, <1>2 DEF Bystanding, ChatKept, Clear, NoState, Moderate

LEMMA RaisesBystands ==
    ASSUME Typed, NEW STATE handler, Raises(handler, Nothing) PROVE Bystanding
BY HeardIs, NothingIs DEF Raises, Bystanding, Moderate, Claimless, ChatKept, Typed

LEMMA StartsBystands ==
    ASSUME Typed, NEW STATE run, run.kind \notin {"install", "register"}, Starts(run, Nothing)
    PROVE  Bystanding
<1>1. PICK i \in Slots : runs' = [runs EXCEPT ![i] = run]
    BY DEF Starts
<1>2. Claimless
    BY <1>1, PutBystands DEF Typed
<1> QED BY <1>2, HeardIs, NothingIs DEF Starts, Bystanding, Moderate, ChatKept, Typed

\* The hosts wizard never stands at a question of the stable preset.
LEMMA ElsewhereBystands ==
    ASSUME Onward, fsm'[1] # "remnanode", Claimless PROVE Bystanding
BY DEF Bystanding, ChatKept

LEMMA HostsStepsBystand ==
    ASSUME Typed, HostsStep \/ PanelRetags PROVE Bystanding
<1>1. ASSUME fsm[1] = "hosts", NEW STATE to, NEW STATE upd, Reply(to, upd) PROVE Bystanding
  <2>1. Onward /\ fsm'[1] # "remnanode" /\ Claimless
      BY <1>1, HeardIs DEF Reply, Moderate, Claimless
  <2> QED BY <2>1, ElsewhereBystands
<1>2. ASSUME fsm[1] = "hosts", NEW STATE handler, NEW STATE upd, Raises(handler, upd) PROVE Bystanding
  <2>1. Onward /\ fsm'[1] # "remnanode" /\ Claimless
      BY <1>2, HeardIs DEF Raises, Moderate, Claimless
  <2> QED BY <2>1, ElsewhereBystands
<1>3. ASSUME fsm[1] = "hosts", NEW STATE run, run.kind \notin {"install", "register"}, NEW STATE upd,
             Starts(run, upd)
      PROVE  Bystanding
  <2>1. PICK i \in Slots : runs' = [runs EXCEPT ![i] = run]
      BY <1>3 DEF Starts
  <2>2. Claimless
      BY <1>3, <2>1, PutBystands DEF Typed
  <2>3. Onward /\ fsm'[1] # "remnanode"
      BY <1>3, HeardIs DEF Starts, Moderate
  <2> QED BY <2>2, <2>3, ElsewhereBystands
<1>4. CASE HostsMenu
  <2>1. Onward /\ fsm'[1] # "remnanode" /\ Claimless
      BY <1>4 DEF HostsMenu, Enters, Onward, Claimless
  <2> QED BY <2>1, ElsewhereBystands
<1>5. CASE HostsPanelChosen
  <2> DEFINE T == {hostTag[h] : h \in Hosts}
  <2> HIDE DEF T
  <2>1. fsm[1] = "hosts" /\ \E p \in Panels :
           Starts(Lookup(<<"hosts", "tag">>, [panel_id |-> p, tags |-> T]), Nothing)
      BY <1>5 DEF HostsPanelChosen, In, T
  <2>2. \A to, upd : Lookup(to, upd).kind = "lookup"
      BY DEF Lookup
  <2> QED BY <1>3, <2>1, <2>2
<1>6. CASE TagChosen \/ TopManual \/ TopIpsets
  <2>1. fsm[1] = "hosts"
      BY <1>6 DEF TagChosen, TopManual, TopIpsets, In
  <2>2. \/ \E handler : Raises(handler, Nothing)
        \/ \E to, upd : Reply(to, upd)
      BY <1>6 DEF TagChosen, TopManual, TopIpsets
  <2> QED BY <1>1, <1>2, <2>1, <2>2
<1>7. ASSUME NEW s, SourceChosen(s) \/ DistChosen(s) PROVE Bystanding
    BY <1>1, <1>7 DEF SourceChosen, DistChosen, In
<1>8. CASE IpsetChosen
  <2>1. \A kind, set : SetRun(kind, set).kind = kind
      BY DEF SetRun
  <2>2. fsm[1] = "hosts"
      BY <1>8, IpsetIs
  <2>3. ASSUME NEW set, NEW upd, upd = [set_id |-> set],
               \/ Raises("ipset_chosen", upd) \/ Reply("single", upd)
               \/ \E kind \in {"preview", "search"} : Starts(SetRun(kind, set), upd)
        PROVE  Bystanding
      BY <1>1, <1>2, <1>3, <2>1, <2>2, <2>3
  <2> QED BY <1>8, <2>3, IpsetIs
<1>9. ASSUME fsm[1] = "hosts", NEW STATE handler, NEW STATE keys, NEW STATE how, NEW STATE promise,
             NEW STATE early, Applies(handler, keys, how, promise, early)
      PROVE  Bystanding
  <2>1. \/ Raises(handler, Nothing)
        \/ Drop
        \/ ApplyBegins(ApplyRun(how, promise, early))
      BY <1>9 DEF Applies, ApplyBegins, ApplyRun
  <2>2. ASSUME ApplyBegins(ApplyRun(how, promise, early)) PROVE Bystanding
    <3>1. ApplyRun(how, promise, early).kind = "apply"
        BY DEF ApplyRun
    <3>2. Claimless
        BY <2>2, <3>1, PutBystands DEF ApplyBegins, Typed
    <3>3. Onward /\ fsm'[1] # "remnanode"
        BY <1>9, <2>2, HeardIs DEF ApplyBegins, Moderate, Clear, NoState
    <3> QED BY <3>2, <3>3, ElsewhereBystands
  <2> QED BY <2>1, <2>2, RaisesBystands, DropBystands
<1>10. CASE GotAddress
    BY <1>9, <1>10 DEF GotAddress, In
<1>11. CASE IpSelected
    BY <1>9, <1>11 DEF IpSelected, In
<1>12. CASE ManualBulkConfirm
    BY <1>9, <1>12 DEF ManualBulkConfirm, In
<1>13. CASE AutoConfirm
    BY <1>9, <1>13 DEF AutoConfirm, In
<1>14. CASE HostsBack
  <2>1. CASE fsm[1] # "hosts"
    <3>1. Onward /\ fsm'[1] # "remnanode" /\ Claimless
        BY <1>14, <2>1 DEF HostsBack, Onward, Claimless
    <3> QED BY <3>1, ElsewhereBystands
  <2> QED BY <1>1, <1>14, <2>1, DropBystands DEF HostsBack
<1>15. CASE PanelRetags
    BY <1>15 DEF PanelRetags, Bystanding, Onward, ChatKept, Claimless
<1> QED BY <1>4, <1>5, <1>6, <1>7, <1>8, <1>10, <1>11, <1>12, <1>13, <1>14, <1>15 DEF HostsStep

LEMMA OverBystands ==
    ASSUME Typed, NEW i \in Slots, NEW STATE run, run.kind \notin {"install", "register"},
           runs' = [runs EXCEPT ![i] = run], Moderate, UNCHANGED <<fsm, data>> \/ fsm'[1] # "remnanode"
    PROVE  Bystanding
<1>1. Claimless
    BY PutBystands DEF Typed
<1> QED BY <1>1 DEF Bystanding, ChatKept, Moderate

LEMMA HostsRunsBystand == ASSUME Typed, NEW i \in Slots, HostsRun(i) PROVE Bystanding
<1> DEFINE r == runs[i]
<1>1. runs = [j \in Slots |-> runs[j]] /\ RunTyped(r)
    BY DEF Typed, RunsTyped
<1>2. Clear => fsm'[1] # "remnanode"
    BY DEF Clear, NoState
<1>3. NoRun.kind \notin {"install", "register"}
    BY DEF NoRun
<1>4. ASSUME Quits(i), UNCHANGED <<fsm, data>> \/ fsm'[1] # "remnanode" PROVE Bystanding
    BY <1>3, <1>4, UnheardIs, OverBystands DEF Quits
<1>5. CASE ApplyLists(i)
  <2>1. CASE /\ runs' = [runs EXCEPT ![i].at = "patch", ![i].pairs = Pairs(r.how, Targets(r.tag))]
             /\ Unheard /\ (Clear \/ UNCHANGED <<fsm, data>>)
    <3> DEFINE pairs == Pairs(r.how, Targets(r.tag))
               run == [r EXCEPT !.at = "patch", !.pairs = pairs]
    <3>1. runs' = [runs EXCEPT ![i] = run]
        BY <1>1, <2>1
    <3> HIDE DEF pairs
    <3>2. run.kind = "apply"
        BY <1>1, <1>5 DEF ApplyLists, RunTyped
    <3> HIDE DEF run
    <3> QED BY <1>2, <2>1, <3>1, <3>2, UnheardIs, OverBystands
  <2> QED BY <1>4, <1>5, <2>1, EndsBystand DEF ApplyLists, Fails
<1>6. CASE ApplyPatches(i)
  <2>1. CASE runs' = [runs EXCEPT ![i] = NoRun] /\ UNCHANGED <<plan, talk, mixed, overlaps, fsm, data>>
    <3>1. Moderate
        BY <2>1 DEF Moderate, Onward
    <3> QED BY <1>3, <2>1, <3>1, OverBystands
  <2> QED BY <1>4, <1>6, <2>1 DEF ApplyPatches, Ends, Fails
<1>7. CASE ManualBulkPreview(i)
    BY <1>4, <1>7, EndsBystand DEF ManualBulkPreview, Ends
<1>8. CASE SearchLists(i)
  <2>1. CASE /\ runs' = [runs EXCEPT ![i].at = "find", ![i].targets = Targets(r.tag)]
             /\ Unheard /\ UNCHANGED <<fsm, data>>
    <3> DEFINE targets == Targets(r.tag)
               run == [r EXCEPT !.at = "find", !.targets = targets]
    <3>1. runs' = [runs EXCEPT ![i] = run]
        BY <1>1, <2>1
    <3> HIDE DEF targets
    <3>2. run.kind = "search"
        BY <1>1, <1>8 DEF SearchLists, RunTyped
    <3> HIDE DEF run
    <3> QED BY <2>1, <3>1, <3>2, UnheardIs, OverBystands
  <2> QED BY <1>4, <1>8, <2>1, EndsBystand DEF SearchLists, Ends
<1>9. CASE SearchEnds(i)
    BY <1>4, <1>9 DEF SearchEnds, Ends
<1> QED BY <1>5, <1>6, <1>7, <1>8, <1>9 DEF HostsRun

LEMMA ChatBystands == ASSUME Typed, ChatNext PROVE Bystanding
<1>1. CASE StartHandler
    BY <1>1, DropBystands DEF StartHandler
<1>2. ASSUME NEW i \in Slots, LookupEnds(i) PROVE Bystanding
  <2>1. LookupTyped(runs[i])
      BY <1>2 DEF LookupEnds, Typed, RunsTyped, RunTyped
  <2>2. runs[i].to[1] # "remnanode"
      BY <2>1 DEF LookupTyped
  <2>3. CASE Ends(i) /\ fsm' = runs[i].to
    <3>1. NoRun.kind \notin {"install", "register"}
        BY DEF NoRun
    <3> QED BY <2>2, <2>3, <3>1, UnheardIs, OverBystands DEF Ends, Quits
  <2> QED BY <1>2, <2>3, EndsBystand DEF LookupEnds
<1> QED BY <1>1, <1>2 DEF ChatNext

\* A run that claims what the dialogue claims: it takes over from it.
LEMMA TakeOver ==
    ASSUME Typed, Claims, Onward, ChatKept, NEW i \in Slots, NEW STATE run,
           runs' = [runs EXCEPT ![i] = run], ClaimsOf(run) \subseteq Claimed, SureOf(run) \subseteq Sure,
           Registered' \subseteq Sure, \A c \in Sure : installed'[c[1]] = installed[c[1]]
    PROVE  Claims'
<1>1. DataClaims' \subseteq Claimed /\ DataSure' \subseteq Sure
    BY ChatKeeps DEF Claimed, Sure
<1>2. \A j \in Slots : runs'[j] = run \/ runs'[j] = runs[j]
    BY DEF Typed, RunsTyped
<1>3. \A j \in Slots : ClaimsOf(runs[j]) \subseteq Claimed /\ SureOf(runs[j]) \subseteq Sure
    BY DEF Claimed, Sure
<1>4. \A j \in Slots : ClaimsOf(runs'[j]) \subseteq Claimed /\ SureOf(runs'[j]) \subseteq Sure
    BY <1>2, <1>3
<1> QED BY <1>1, <1>4, ChatKeeps, ClaimsStay

LEMMA LoginClaims == ASSUME Typed, Claims, LoginStep PROVE Claims'
<1>1. fsm[1] \in Presets
    BY DEF LoginStep
<1>2. AfterLogin \subseteq AfterIp /\ {"passphrase", "become", "secret"} \subseteq AfterIp
    BY DEF AfterIp, AfterLogin
<1>3. ASSUME NEW upd, Given(upd), data' = Update(upd)
      PROVE  /\ fsm[2] \in AfterIp
             /\ data'["ips"] = data["ips"] /\ data'["panel_id"] = data["panel_id"]
  <2>1. /\ fsm[2] \in AfterLogin
        /\ DOMAIN upd \subseteq {"auth_method", "key_data", "password", "become_pass"}
      BY <1>1, <1>3, GivenIs
  <2> QED BY <1>2, <1>3, <2>1 DEF Update, Keys
<1>4. ASSUME NEW upd, Given(upd), NEW to \in {"passphrase", "become", "secret"}, Reply(to, upd), StillHere
      PROVE  Claims'
  <2>1. Onward /\ Claimless /\ data' = Update(upd) /\ fsm' = <<fsm[1], to>>
      BY <1>4, HeardIs DEF Reply, Moderate, Claimless
  <2>2. ChatKept
      BY <1>1, <1>2, <1>3, <1>4, <2>1 DEF ChatKept
  <2> QED BY <1>4, <2>1, <2>2, BystandingClaims DEF Bystanding, StillHere, deployVars
<1>5. CASE fsm[2] = "auth" /\ StillHere
           /\ Reply("passphrase", [auth_method |-> "key", key_data |-> talk])
  <2> DEFINE upd == [auth_method |-> "key", key_data |-> talk]
  <2>1. Given(upd)
      BY <1>5 DEF Given, Gives
  <2> HIDE DEF upd
  <2>2. Reply("passphrase", upd)
      BY <1>5 DEF upd
  <2> QED BY <1>4, <1>5, <2>1, <2>2
<1>6. ASSUME NEW upd, Gives(upd), StillHere,
             Reply("become", upd) \/ (fsm[1] = "remnanode" /\ Reply("secret", upd))
      PROVE  Claims'
    BY <1>4, <1>6 DEF Given
<1>7. ASSUME NEW upd, Given(upd), Installs(upd) PROVE Claims'
  <2>1. UNCHANGED <<installed, nodes>>
      BY <1>7 DEF Installs, remote
  <2>2. CASE Drop
      BY <2>1, <2>2, DropBystands, BystandingClaims
  <2>3. CASE fsm[1] = "remnanode" /\ Starts(InstallRun, upd)
    <3>1. Onward /\ fsm' = fsm /\ data' = Update(upd) /\ talk' = talk
        BY <2>3, HeardIs DEF Starts, Moderate
    <3>2. fsm[2] \in AfterIp /\ ChatKept
        BY <1>3, <1>7, <2>3, <3>1 DEF ChatKept
    <3>3. ClaimsOf(InstallRun) \subseteq Claimed /\ SureOf(InstallRun) \subseteq Sure
      <4>1. /\ InstallRun.kind = "install" /\ InstallRun.at = "playbook"
            /\ InstallRun.servers = Own /\ InstallRun.panel = data["panel_id"]
          BY DEF InstallRun
      <4>2. data["ips"] = Own
          BY <2>3, <3>2 DEF Typed, Told
      <4> HIDE DEF InstallRun
      <4> QED BY <2>3, <3>2, <4>1, <4>2 DEF ClaimsOf, SureOf, Claimed, DataClaims
    <3>4. PICK i \in Slots : runs' = [runs EXCEPT ![i] = InstallRun]
        BY <2>3 DEF Starts
    <3>5. Registered' \subseteq Sure /\ \A c \in Sure : installed'[c[1]] = installed[c[1]]
        BY <2>1 DEF Sure, Registered
    <3> QED BY <3>1, <3>2, <3>3, <3>4, <3>5, TakeOver
  <2>4. CASE fsm[1] = "hysteria" /\ Starts(HysRun, upd)
    <3>1. PICK i \in Slots : runs' = [runs EXCEPT ![i] = HysRun]
        BY <2>4 DEF Starts
    <3>2. HysRun.kind \notin {"install", "register"}
        BY DEF HysRun
    <3>3. Moderate /\ fsm'[1] # "remnanode"
        BY <2>4, HeardIs DEF Starts
    <3> QED BY <2>1, <3>1, <3>2, <3>3, OverBystands, BystandingClaims
  <2> QED BY <1>7, <2>2, <2>3, <2>4 DEF Installs
<1> QED BY <1>5, <1>6, <1>7 DEF LoginStep

LEMMA AnswersClaims ==
    ASSUME Typed, Claims,
           PanelChosen \/ GotIp \/ GotLogin \/ GotSecretKey
              \/ HysPanelChosen \/ HysGotIp \/ HysGotLogin \/ HysManualZoneStart
    PROVE  Claims'
<1>1. ASSUME NEW upd, NEW to, Reply(to, upd), StillHere,
             \/ fsm = <<"remnanode", "panel">> /\ to = "ip"
             \/ fsm[1] = "hysteria"
             \/ fsm[1] = "remnanode" /\ fsm[2] \in AfterIp /\ to \in AfterIp
                /\ DOMAIN upd \cap {"ips", "panel_id"} = {}
      PROVE  Claims'
  <2>1. Onward /\ Claimless /\ talk' = talk /\ data' = Update(upd) /\ fsm' = <<fsm[1], to>>
      BY <1>1, HeardIs DEF Reply, Moderate, Claimless
  <2>2. ChatKept
      BY <1>1, <2>1 DEF ChatKept, Update, Keys
  <2> QED BY <1>1, <2>1, <2>2, BystandingClaims DEF Bystanding, StillHere, deployVars
<1>2. CASE PanelChosen \/ HysPanelChosen \/ HysGotIp \/ HysManualZoneStart
  <2>1. ASSUME NEW w \in Presets, NEW choices, ChoosesPanel(w, choices) PROVE Claims'
    <3>1. StillHere /\ fsm = <<w, "panel">> /\ \E upd : Reply("ip", upd)
        BY <2>1 DEF ChoosesPanel, At
    <3> QED BY <1>1, <3>1 DEF Presets
  <2>2. HysGotIp => StillHere /\ fsm[1] = "hysteria" /\ \E upd : Reply("login", upd)
      BY DEF HysGotIp, At
  <2>3. HysManualZoneStart => StillHere /\ fsm[1] = "hysteria" /\ \E upd : Reply("manual", upd)
      BY DEF HysManualZoneStart, At
  <2> QED BY <1>1, <1>2, <2>1, <2>2, <2>3 DEF PanelChosen, HysPanelChosen, Presets
<1>3. ASSUME NEW w \in Presets, fsm = <<w, "login">>, StillHere,
             NEW l \in {Root, talk}, Reply("auth", [login |-> l])
      PROVE  Claims'
  <2> DEFINE upd == [login |-> l]
  <2>1. DOMAIN upd = {"login"}
      OBVIOUS
  <2> HIDE DEF upd
  <2>2. Reply("auth", upd)
      BY <1>3 DEF upd
  <2> QED BY <1>1, <1>3, <2>1, <2>2 DEF Presets, AfterIp, AfterLogin
<1>4. CASE GotSecretKey
  <2> DEFINE upd == [secret_key |-> talk]
  <2>1. DOMAIN upd = {"secret_key"}
      OBVIOUS
  <2> HIDE DEF upd
  <2>2. Reply("port", upd) /\ fsm = <<"remnanode", "secret">> /\ StillHere
      BY <1>4 DEF upd, GotSecretKey, At
  <2>3. Onward /\ Claimless /\ talk' = talk /\ data' = Update(upd) /\ fsm' = <<fsm[1], "port">>
      BY <2>2, HeardIs DEF Reply, Moderate, Claimless
  <2>4. ChatKept
      BY <2>1, <2>2, <2>3 DEF ChatKept, Update, Keys, AfterIp, AfterLogin
  <2> QED BY <2>2, <2>3, <2>4, BystandingClaims DEF Bystanding, StillHere, deployVars
<1>5. CASE GotIp
  <2> DEFINE upd == [ips |-> Own]
  <2>1. DOMAIN upd = {"ips"} /\ upd["ips"] = Own
      OBVIOUS
  <2> HIDE DEF upd
  <2>2. /\ Reply("login", upd) /\ data' = Update(upd) /\ fsm' = <<"remnanode", "login">>
        /\ UNCHANGED <<plan, talk, runs>> /\ fsm = <<"remnanode", "ip">> /\ StillHere
      BY <1>5, HeardIs DEF GotIp, At, Reply, upd, Own
  <2>3. data'["ips"] = Own /\ data'["panel_id"] = data["panel_id"]
      BY <2>1, <2>2 DEF Update, Keys
  <2> DEFINE new == Own \X {data["panel_id"]}
  <2>4. DataClaims' = new /\ DataSure' = {}
      BY <2>2, <2>3 DEF DataClaims, DataSure, AfterIp, AfterLogin
  <2> HIDE DEF new
  <2>5. Claimed' \subseteq Claimed \cup new
      BY <2>2, <2>4 DEF Claimed, Registered, StillHere, deployVars
  <2>6. Sure' \subseteq Sure
      BY <2>2, <2>4 DEF Sure, Registered, StillHere, deployVars
  <2>7. \A c \in Claimed : c[1] \in Servers /\ c[1][1] \in 1..talk
                           /\ plan.wizards[c[1][1]] = "remnanode" /\ c[1][1] # talk
      BY <2>2 DEF Claims
  <2>8. \A c \in new : c[1] \in Servers /\ c[1][1] = talk /\ c[2] = data["panel_id"]
      BY DEF new, Own
  <2>9. talk \in DOMAIN plan.wizards /\ plan.wizards[talk] = "remnanode" /\ talk \in 1..talk
    <3>1. talk \in DOMAIN plan.wizards /\ plan.wizards[talk] = "remnanode"
        BY <2>2 DEF Typed, Told, AfterPanel, Presets
    <3>2. plan.wizards \in Seq(Wizards)
        BY ChatAssumption DEF Typed, ChatTyped
    <3> QED BY <3>1, <3>2
  <2>10. \A c \in Claimed' : c[1] \in Servers /\ c[1][1] \in 1..talk'
                             /\ plan'.wizards[c[1][1]] = "remnanode"
      BY <2>2, <2>5, <2>7, <2>8, <2>9
  <2>11. \A c, d \in Claimed' : c[1] = d[1] => c[2] = d[2]
    <3> SUFFICES ASSUME NEW c \in Claimed \cup new, NEW d \in Claimed \cup new, c[1] = d[1]
                 PROVE  c[2] = d[2]
        BY <2>5
    <3>1. c \in Claimed <=> d \in Claimed
        BY <2>7, <2>8
    <3> QED BY <3>1, <2>8 DEF Claims
  <2>12. \A c \in Sure' : c[2] \in Panels /\ installed'[c[1]] = c[2]
      BY <2>2, <2>6 DEF Claims, StillHere, deployVars
  <2> QED BY <2>2, <2>10, <2>11, <2>12 DEF Claims
<1> QED BY <1>2, <1>3, <1>4, <1>5 DEF GotLogin, HysGotLogin, GivesLogin, At, Presets

LEMMA ChoicesClaims ==
    ASSUME Typed, Claims,
           ConfigProfileChosen \/ HysProfileChosen \/ HysZoneSelected \/ HysGotManualZone
              \/ CancelDeploy
    PROVE  Claims'
<1>1. UNCHANGED <<installed, nodes>>
    BY DEF ConfigProfileChosen, HysProfileChosen, HysZoneSelected, HysGotManualZone, CancelDeploy,
           StillHere, deployVars
<1>2. \A to, upd : Lookup(to, upd).kind = "lookup"
    BY DEF Lookup
<1>3. ASSUME NEW to, NEW upd, Starts(Lookup(to, upd), Nothing) PROVE Claims'
    BY <1>1, <1>2, <1>3, StartsBystands, BystandingClaims
<1>4. ASSUME NEW p, fsm = <<"remnanode", "profile">>, Starts(RegisterRun(p), Nothing)
      PROVE  Claims'
  <2>1. Onward /\ ChatKept
      BY <1>4, HeardIs, NothingIs DEF Starts, Moderate, ChatKept, Typed
  <2>2. PICK i \in Slots : runs' = [runs EXCEPT ![i] = RegisterRun(p)]
      BY <1>4 DEF Starts
  <2>3. ClaimsOf(RegisterRun(p)) \subseteq Claimed /\ SureOf(RegisterRun(p)) \subseteq Sure
    <3>1. /\ RegisterRun(p).kind = "register" /\ RegisterRun(p).servers = data["node_addresses"]
          /\ RegisterRun(p).panel = data["panel_id"]
        BY DEF RegisterRun
    <3>2. fsm[2] \notin AfterIp
        BY <1>4 DEF AfterIp, AfterLogin
    <3> QED BY <1>4, <3>1, <3>2 DEF ClaimsOf, SureOf, Claimed, Sure, DataClaims, DataSure
  <2>4. Registered' \subseteq Sure /\ \A c \in Sure : installed'[c[1]] = installed[c[1]]
      BY <1>1 DEF Sure, Registered
  <2> QED BY <2>1, <2>2, <2>3, <2>4, TakeOver
<1>5. Drop => Claims'
    BY <1>1, DropBystands, BystandingClaims
<1>6. ASSUME NEW handler, Raises(handler, Nothing) PROVE Claims'
    BY <1>1, <1>6, RaisesBystands, BystandingClaims
<1>7. CASE ConfigProfileChosen
  <2>1. \/ Raises("config_profile_chosen", Nothing)
        \/ Drop
        \/ fsm = <<"remnanode", "profile">> /\ \E p \in Profiles : Starts(RegisterRun(p), Nothing)
      BY <1>7 DEF ConfigProfileChosen, At, RegisterRun
  <2> QED BY <1>4, <1>5, <1>6, <2>1
<1>8. CASE HysProfileChosen
  <2>1. \/ Raises("hys_profile_chosen", Nothing)
        \/ Drop
        \/ \E to, upd : Starts(Lookup(to, upd), Nothing)
      BY <1>8 DEF HysProfileChosen
  <2> QED BY <1>3, <1>5, <1>6, <2>1
<1>9. CASE HysZoneSelected \/ HysGotManualZone
  <2>1. \E to, upd : Starts(Lookup(to, upd), Nothing)
      BY <1>9 DEF HysZoneSelected, HysGotManualZone
  <2> QED BY <1>3, <2>1
<1>10. CASE CancelDeploy
    BY <1>5, <1>10 DEF CancelDeploy
<1> QED BY <1>7, <1>8, <1>9, <1>10

LEMMA SubdomainClaims == ASSUME Typed, Claims, HysGotSubdomain PROVE Claims'
<1>1. \A d : PipelineRun(d).kind = "pipeline"
    BY DEF PipelineRun
<1>2. UNCHANGED <<installed, nodes>>
    BY SubdomainIs
<1>3. \/ Raises("hys_got_subdomain", Nothing)
      \/ Drop
      \/ \E d \in Domains : Starts(PipelineRun(d), Nothing)
    BY SubdomainIs
<1>4. Bystanding
    BY <1>1, <1>3, RaisesBystands, DropBystands, StartsBystands
<1> QED BY <1>2, <1>4, BystandingClaims

LEMMA EntersClaims == ASSUME Typed, Claims, NEW w \in Presets, Enters(w), StillHere PROVE Claims'
<1>1. Onward /\ Claimless /\ fsm' = <<w, "panel">> /\ talk' = talk + 1
    BY DEF Enters, Onward, Claimless
<1>2. ChatKept
    BY <1>1 DEF ChatKept, Presets
<1> QED BY <1>1, <1>2, BystandingClaims DEF Bystanding, StillHere, deployVars

LEMMA InstallClaims ==
    ASSUME Typed, Claims, NEW i \in Slots, InstallPlaybooks(i) \/ InstallProfiles(i) \/ RegisterEnds(i)
    PROVE  Claims'
<1> DEFINE r == runs[i]
<1>1. RunTyped(r) /\ runs = [j \in Slots |-> runs[j]]
    BY DEF Typed, RunsTyped
<1>2. ClaimsOf(r) \subseteq Claimed /\ SureOf(r) \subseteq Sure
    BY DEF Claimed, Sure
<1>3. CASE InstallProfiles(i)
  <2>1. r.kind = "install" /\ r.at = "profiles" /\ UNCHANGED <<installed, nodes>>
      BY <1>3 DEF InstallProfiles, StillHere, deployVars
  <2>2. CASE Ends(i) /\ fsm' = <<"remnanode", "profile">>
             /\ data' = [NoData EXCEPT !["panel_id"] = r.panel, !["node_addresses"] = r.servers]
    <3>1. data'["panel_id"] = r.panel /\ data'["node_addresses"] = r.servers
        BY <2>2 DEF NoData, Keys
    <3>2. DataClaims' \subseteq Claimed /\ DataSure' \subseteq Sure
        BY <1>2, <2>1, <2>2, <3>1 DEF DataClaims, DataSure, AfterIp, AfterLogin, ClaimsOf, SureOf
    <3>3. runs' = [runs EXCEPT ![i] = NoRun] /\ Onward
        BY <2>2, UnheardIs DEF Ends, Quits, Moderate
    <3>4. Claimless
        BY <3>3, PutBystands DEF NoRun, Typed
    <3>5. Registered' \subseteq Sure /\ \A c \in Sure : installed'[c[1]] = installed[c[1]]
        BY <2>1 DEF Registered, Sure
    <3> QED BY <2>2, <3>2, <3>3, <3>4, <3>5, ClaimlessRuns, ClaimsStay
  <2> QED BY <1>3, <2>1, <2>2, EndsBystand, BystandingClaims DEF InstallProfiles
<1>4. CASE RegisterEnds(i)
  <2>1. r.kind = "register" /\ UNCHANGED installed
      BY <1>4 DEF RegisterEnds
  <2>2. Bystanding
      BY <1>4, EndsBystand DEF RegisterEnds
  <2>3. Registered' \subseteq Registered \cup (r.servers \X {r.panel})
      BY <1>4 DEF RegisterEnds, Registered
  <2>4. Registered' \subseteq Sure
      BY <1>2, <2>1, <2>3 DEF SureOf, Sure
  <2>5. DataClaims' \subseteq Claimed /\ DataSure' \subseteq Sure
      BY <2>2, ChatKeeps DEF Bystanding, Claimed, Sure
  <2> QED BY <2>1, <2>2, <2>4, <2>5, ChatKeeps, ClaimlessRuns, ClaimsStay DEF Bystanding
<1>5. CASE InstallPlaybooks(i)
  <2>1. PICK ok \in SUBSET r.servers :
           /\ installed' = [s \in Servers |-> IF s \in ok THEN r.secret ELSE installed[s]]
           /\ IF ok = {} \/ r.panel = Nil THEN EndsClearing(i)
              ELSE /\ runs' = [runs EXCEPT ![i].at = "profiles", ![i].servers = ok]
                   /\ Unheard /\ UNCHANGED <<fsm, data, mishaps>>
      BY <1>5 DEF InstallPlaybooks
  <2>2. r.kind = "install" /\ InstallTyped(r) /\ UNCHANGED nodes
      BY <1>1, <1>5 DEF InstallPlaybooks, RunTyped
  \* A server in ok is claimed for the panel of this run only.
  <2>3. \A c \in Sure : c[1] \in Servers /\ (c[1] \in ok => c[2] = r.panel)
    <3>1. \A s \in ok : <<s, r.panel>> \in Claimed
        BY <1>2, <2>1, <2>2 DEF ClaimsOf
    <3> QED BY <3>1, SureIsClaimed DEF Claims
  <2>4. \A c \in Sure : installed'[c[1]] = installed[c[1]]
    <3> SUFFICES ASSUME NEW c \in Sure PROVE installed'[c[1]] = installed[c[1]]
        OBVIOUS
    <3>1. c[1] \in Servers /\ c[2] \in Panels /\ installed[c[1]] = c[2]
        BY <2>3 DEF Claims
    <3>2. CASE c[1] \in ok
      <4>1. r.panel = c[2] /\ r.panel # Nil
          BY <2>3, <3>1, <3>2, ChatAssumption
      <4>2. r.secret = r.panel
          BY <2>2, <4>1 DEF InstallTyped
      <4> QED BY <2>1, <3>1, <3>2, <4>1, <4>2
    <3> QED BY <2>1, <3>1, <3>2
  <2>5. Registered' = Registered
      BY <2>2 DEF Registered
  <2>6. CASE EndsClearing(i)
    <3>1. Bystanding
        BY <2>6, EndsBystand
    <3>2. DataClaims' \subseteq Claimed /\ DataSure' \subseteq Sure /\ Registered' \subseteq Sure
        BY <2>5, <3>1, ChatKeeps DEF Bystanding, Claimed, Sure
    <3> QED BY <2>4, <3>1, <3>2, ChatKeeps, ClaimlessRuns, ClaimsStay DEF Bystanding
  <2>7. CASE r.panel # Nil /\ runs' = [runs EXCEPT ![i].at = "profiles", ![i].servers = ok]
             /\ Unheard /\ UNCHANGED <<fsm, data, mishaps>>
    <3> DEFINE run == [r EXCEPT !.at = "profiles", !.servers = ok]
               sure == ok \X {r.panel}
    <3>1. runs' = [runs EXCEPT ![i] = run]
        BY <1>1, <2>7
    <3>2. /\ run.kind = "install" /\ run.at = "profiles" /\ run.servers = ok /\ run.panel = r.panel
        BY <2>2 DEF InstallTyped
    <3> HIDE DEF run
    <3>3. ClaimsOf(run) = sure /\ SureOf(run) = sure /\ sure \subseteq Claimed
        BY <1>2, <2>1, <2>2, <3>2 DEF ClaimsOf, SureOf
    <3> HIDE DEF sure
    <3>4. DataClaims' = DataClaims /\ DataSure' = DataSure /\ plan' = plan /\ talk' = talk
        BY <2>7, UnheardIs DEF DataClaims, DataSure
    <3>5. \A j \in Slots : runs'[j] = run \/ runs'[j] = runs[j]
        BY <1>1, <3>1
    <3>6. \A j \in Slots : ClaimsOf(runs'[j]) \subseteq Claimed /\ SureOf(runs'[j]) \subseteq Sure \cup sure
      <4>1. \A j \in Slots : ClaimsOf(runs[j]) \subseteq Claimed /\ SureOf(runs[j]) \subseteq Sure
          BY DEF Claimed, Sure
      <4> QED BY <3>3, <3>5, <4>1
    <3>7. Claimed' \subseteq Claimed
        BY <2>5, <3>4, <3>6 DEF Claimed
    <3>8. Sure' \subseteq Sure \cup sure
        BY <2>5, <3>4, <3>6 DEF Sure
    <3>9. \A c \in sure : c[2] \in Panels /\ installed'[c[1]] = c[2]
      <4>1. r.panel \in Panels /\ r.secret = r.panel /\ ok \subseteq Servers
          BY <2>1, <2>2, <2>7 DEF InstallTyped
      <4> QED BY <2>1, <4>1 DEF sure
    <3>10. \A c \in Sure' : c[2] \in Panels /\ installed'[c[1]] = c[2]
        BY <2>4, <3>8, <3>9 DEF Claims
    <3>11. /\ \A c \in Claimed' : c[1] \in Servers /\ c[1][1] \in 1..talk'
                                  /\ plan'.wizards[c[1][1]] = "remnanode"
           /\ \A c, d \in Claimed' : c[1] = d[1] => c[2] = d[2]
           /\ fsm'[1] = "remnanode" /\ fsm'[2] \in {"panel", "ip"} => \A c \in Claimed' : c[1][1] # talk'
        BY <2>7, <3>4, <3>7 DEF Claims
    <3> QED BY <3>10, <3>11 DEF Claims
  <2> QED BY <2>1, <2>6, <2>7
<1> QED BY <1>3, <1>4, <1>5

LEMMA NearClaims ==
    ASSUME Typed, Claims, Bystanding, Registered' = Registered,
           \A c \in Sure : installed'[c[1]] = installed[c[1]]
    PROVE  Claims'
<1>1. DataClaims' \subseteq Claimed /\ DataSure' \subseteq Sure /\ Registered' \subseteq Sure
    BY ChatKeeps DEF Bystanding, Claimed, Sure
<1> QED BY <1>1, ChatKeeps, ClaimlessRuns, ClaimsStay DEF Bystanding

LEMMA HysUnclaimed ==
    ASSUME Typed, Claims, NEW s, HysServer(s)
    PROVE  \A c \in Sure : c[1] # s /\ c[1] \in DOMAIN installed
<1>1. plan.wizards[s[1]] = "hysteria"
    BY DEF HysServer
<1>2. \A c \in Sure : plan.wizards[c[1][1]] = "remnanode" /\ c[1] \in DOMAIN installed
    BY SureIsClaimed DEF Claims, Typed, ReachTyped
<1> QED BY <1>1, <1>2

LEMMA GoesOnBystands ==
    ASSUME Typed, NEW i \in Slots, runs[i].kind \in {"hys_install", "pipeline"}, NEW at, GoesOn(i, at)
    PROVE  Bystanding
<1> DEFINE r == runs[i]
           run == [r EXCEPT !.at = at]
<1>1. runs' = [runs EXCEPT ![i] = run] /\ RunTyped(r)
    BY DEF GoesOn, Typed, RunsTyped
<1>2. run.kind = r.kind
    BY <1>1 DEF RunTyped, PipelineTyped
<1> HIDE DEF run
<1> QED BY <1>1, <1>2, UnheardIs, OverBystands DEF GoesOn

LEMMA HysInstallClaims ==
    ASSUME Typed, Claims, NEW i \in Slots, HysInstallPlaybook(i) \/ HysInstallProfiles(i)
    PROVE  Claims'
<1> DEFINE r == runs[i]
<1>1. RunTyped(r) /\ r.kind = "hys_install"
    BY DEF Typed, RunsTyped, HysInstallPlaybook, HysInstallProfiles
<1>2. CASE HysInstallPlaybook(i)
  <2>1. Bystanding
      BY <1>1, <1>2, EndsBystand, GoesOnBystands DEF HysInstallPlaybook
  <2>2. HysServer(r.server) /\ UNCHANGED nodes
      BY <1>1, <1>2 DEF RunTyped, HysInstallPlaybook, StillHere, deployVars
  <2>3. installed' = installed \/ installed' = [installed EXCEPT ![r.server] = r.panel]
      BY <1>2 DEF HysInstallPlaybook, StillHere, deployVars
  <2>4. \A c \in Sure : installed'[c[1]] = installed[c[1]]
      BY <2>2, <2>3, HysUnclaimed
  <2> QED BY <2>1, <2>2, <2>4, NearClaims DEF Registered
<1>3. CASE HysInstallProfiles(i)
  <2>1. UNCHANGED <<installed, nodes>>
      BY <1>3 DEF HysInstallProfiles, StillHere, deployVars
  <2>2. CASE Ends(i) /\ fsm' = <<"hysteria", "profile">>
    <3>1. Bystanding
        BY <2>2, UnheardIs, OverBystands DEF Ends, Quits, NoRun
    <3> QED BY <2>1, <3>1, BystandingClaims
  <2> QED BY <1>3, <2>1, <2>2, EndsBystand, BystandingClaims DEF HysInstallProfiles
<1> QED BY <1>2, <1>3

\* What a step of a pipeline does to the chat, the nodes and the server.
LEMMA PipelineIs ==
    ASSUME Typed, NEW i \in Slots,
           PipelineDnsGet(i) \/ PipelineDnsPut(i) \/ PipelineCert(i) \/ PipelineProfile(i)
              \/ PipelineNode(i)
    PROVE  /\ runs[i].kind = "pipeline" /\ PipelineTyped(runs[i])
           /\ \/ EndsClearing(i) \/ Refused(i) \/ Breaks(i) \/ \E at : GoesOn(i, at)
              \/ /\ PipelineDnsGet(i) /\ Unheard /\ UNCHANGED <<fsm, data, mishaps>>
                 /\ runs' = [runs EXCEPT ![i].at = "dns_put",
                                         ![i].found = dns[runs[i].of.domain] # <<>>]
              \/ /\ runs[i].login = Absent /\ runs' = [runs EXCEPT ![i] = NoRun]
                 /\ UNCHANGED <<fsm, data, plan, talk, mixed, mishaps, overlaps, installed, certs,
                                borrowed>>
                 /\ missing' = missing \cup {"hys_got_subdomain"}
           /\ \/ UNCHANGED installed
              \/ \E secret : installed' = [installed EXCEPT ![runs[i].of.server] = secret]
           /\ \/ UNCHANGED borrowed
              \/ borrowed' = borrowed \cup ({runs[i].of.server} \X runs[i].foreign)
           /\ \/ UNCHANGED nodes
              \/ \E n : n.preset = "hysteria" /\ nodes' = nodes \cup {n}
<1> DEFINE r == runs[i]
<1> DEFINE Shape ==
      \/ EndsClearing(i) \/ Refused(i) \/ Breaks(i) \/ \E at : GoesOn(i, at)
      \/ /\ PipelineDnsGet(i) /\ Unheard /\ UNCHANGED <<fsm, data, mishaps>>
         /\ runs' = [runs EXCEPT ![i].at = "dns_put", ![i].found = dns[r.of.domain] # <<>>]
      \/ /\ r.login = Absent /\ runs' = [runs EXCEPT ![i] = NoRun]
         /\ UNCHANGED <<fsm, data, plan, talk, mixed, mishaps, overlaps, installed, certs, borrowed>>
         /\ missing' = missing \cup {"hys_got_subdomain"}
<1>1. CASE PipelineDnsGet(i)
    BY <1>1 DEF PipelineDnsGet, InPipeline, StillHere, deployVars, Typed, RunsTyped, RunTyped
<1>2. CASE PipelineDnsPut(i)
  <2>1. InPipeline(i, "dns_put") /\ UNCHANGED <<installed, nodes, borrowed>>
        /\ (Refused(i) \/ Breaks(i) \/ GoesOn(i, "cert"))
      BY <1>2, Zenon DEF PipelineDnsPut
  <2> QED BY <2>1 DEF InPipeline, Typed, RunsTyped, RunTyped
<1>3. CASE PipelineCert(i)
  <2>1. Shape
      BY <1>3 DEF PipelineCert
  <2>2. InPipeline(i, "cert") /\ UNCHANGED nodes
      BY <1>3 DEF PipelineCert
  <2>3. \/ UNCHANGED installed
        \/ \E secret : installed' = [installed EXCEPT ![r.of.server] = secret]
      BY <1>3 DEF PipelineCert
  <2>4. \/ UNCHANGED borrowed
        \/ borrowed' = borrowed \cup ({r.of.server} \X r.foreign)
      BY <1>3 DEF PipelineCert
  <2> QED BY <2>1, <2>2, <2>3, <2>4 DEF InPipeline, Typed, RunsTyped, RunTyped
<1>4. CASE PipelineProfile(i)
  <2>1. InPipeline(i, "profile") /\ UNCHANGED <<installed, nodes, borrowed>>
        /\ (Refused(i) \/ Breaks(i) \/ GoesOn(i, "node"))
      BY <1>4 DEF PipelineProfile
  <2> QED BY <2>1 DEF InPipeline, Typed, RunsTyped, RunTyped
<1>5. CASE PipelineNode(i)
  <2> DEFINE n == [preset |-> "hysteria", server |-> r.of.server, domain |-> r.of.domain,
                   panel |-> r.panel, profile |-> r.of.profile]
  <2>1. n.preset = "hysteria"
      OBVIOUS
  <2>2. nodes' = nodes \/ nodes' = nodes \cup {n}
      BY <1>5 DEF PipelineNode
  <2>3. InPipeline(i, "node") /\ UNCHANGED <<installed, borrowed>>
        /\ (EndsClearing(i) \/ Refused(i) \/ Breaks(i))
      BY <1>5 DEF PipelineNode
  <2> HIDE DEF n
  <2> QED BY <2>1, <2>2, <2>3 DEF InPipeline, Typed, RunsTyped, RunTyped
<1> QED BY <1>1, <1>2, <1>3, <1>4, <1>5

LEMMA PipelineClaims ==
    ASSUME Typed, Claims, NEW i \in Slots,
           PipelineDnsGet(i) \/ PipelineDnsPut(i) \/ PipelineCert(i) \/ PipelineProfile(i)
              \/ PipelineNode(i)
    PROVE  Claims'
<1> DEFINE r == runs[i]
<1>1. r.kind = "pipeline" /\ PipelineTyped(r)
    BY PipelineIs
<1>2. ASSUME Unheard, UNCHANGED <<fsm, data, mishaps>>,
             runs' = [runs EXCEPT ![i].at = "dns_put", ![i].found = dns[r.of.domain] # <<>>]
      PROVE  Bystanding
  <2> DEFINE run == [r EXCEPT !.at = "dns_put", !.found = dns[r.of.domain] # <<>>]
  <2>1. runs' = [runs EXCEPT ![i] = run]
      BY <1>2 DEF Typed, RunsTyped
  <2>2. run.kind = "pipeline"
      BY <1>1 DEF PipelineTyped
  <2> HIDE DEF run
  <2> QED BY <1>2, <2>1, <2>2, UnheardIs, OverBystands
<1>3. Bystanding
  <2>1. CASE runs' = [runs EXCEPT ![i] = NoRun] /\ UNCHANGED <<fsm, data, plan, talk, mixed, overlaps>>
    <3>1. Moderate
        BY <2>1 DEF Moderate, Onward
    <3> QED BY <2>1, <3>1, OverBystands DEF NoRun
  <2> QED BY <1>1, <1>2, <2>1, PipelineIs, EndsBystand, GoesOnBystands
<1>4. \A c \in Sure : installed'[c[1]] = installed[c[1]]
  <2>1. HysServer(r.of.server)
      BY <1>1 DEF PipelineTyped
  <2>2. \A c \in Sure : c[1] # r.of.server /\ c[1] \in DOMAIN installed
      BY <2>1, HysUnclaimed
  <2>3. \/ UNCHANGED installed
        \/ \E secret : installed' = [installed EXCEPT ![r.of.server] = secret]
      BY PipelineIs
  <2> QED BY <2>2, <2>3
<1>5. Registered' = Registered
  <2>1. UNCHANGED nodes \/ \E n : n.preset = "hysteria" /\ nodes' = nodes \cup {n}
      BY PipelineIs
  <2> QED BY <2>1 DEF Registered
<1> QED BY <1>3, <1>4, <1>5, NearClaims

-----------------------------------------------------------------------------
(* What the stable preset registers is installed.                           *)

LEMMA ClaimsInit == Init => Claims
<1> SUFFICES ASSUME Init PROVE Claims
    OBVIOUS
<1>1. fsm = NoState /\ nodes = {} /\ \A i \in Slots : runs[i] = NoRun
    BY DEF Init, ChatInit, DeployInit
<1>2. ClaimsOf(NoRun) = {} /\ SureOf(NoRun) = {}
    BY DEF ClaimsOf, SureOf, NoRun
<1>3. Claimed = {} /\ Sure = {}
    BY <1>1, <1>2 DEF Claimed, Sure, DataClaims, DataSure, Registered, NoState
<1> QED BY <1>1, <1>3 DEF Claims, NoState

LEMMA ClaimsNext == Typed /\ Claims /\ [Next]_vars => Claims'
<1> SUFFICES ASSUME Typed, Claims, [Next]_vars PROVE Claims'
    OBVIOUS
<1>1. CASE DeployNext
  <2>1. ASSUME NEW w \in Presets, Enters(w), StillHere PROVE Claims'
      BY <2>1, EntersClaims
  <2>2. ASSUME NEW i \in Slots, DeployRun(i) PROVE Claims'
      BY <2>2, InstallClaims, HysInstallClaims, PipelineClaims DEF DeployRun
  <2>3. CASE StableStep \/ HysteriaStep \/ CancelDeploy
      BY <2>1, <2>3, DeployStepsAre, LoginClaims, AnswersClaims, ChoicesClaims, SubdomainClaims
  <2> QED BY <1>1, <2>2, <2>3 DEF DeployNext
<1>2. CASE HostsNext /\ UNCHANGED deployVars
  <2>1. Bystanding
      BY <1>2, HostsStepsBystand, HostsRunsBystand DEF HostsNext
  <2> QED BY <1>2, <2>1, BystandingClaims DEF deployVars
<1>3. CASE ChatNext /\ UNCHANGED deployVars
    BY <1>3, ChatBystands, BystandingClaims DEF deployVars
<1>4. CASE UNCHANGED vars
  <2>1. UNCHANGED <<fsm, data, runs, plan, talk>> /\ UNCHANGED <<installed, nodes>>
      BY <1>4 DEF vars, chatVars, deployVars
  <2>2. Bystanding
      BY <2>1 DEF Bystanding, Onward, ChatKept, Claimless
  <2> QED BY <2>1, <2>2, BystandingClaims
<1> QED BY <1>1, <1>2, <1>3, <1>4 DEF Next

LEMMA ClaimsRegister == Claims => StableRegistersInstalled
<1> SUFFICES ASSUME Claims, NEW n \in nodes, n.preset = "remnanode" PROVE installed[n.server] = n.panel
    BY DEF StableRegistersInstalled
<1>1. <<n.server, n.panel>> \in Sure
    BY DEF Sure, Registered
<1> QED BY <1>1 DEF Claims

\* A node that the stable preset registers runs on its server with the secret key of its
\* panel: a server is claimed by the one dialogue it was typed in, for the one panel chosen
\* there, and only the addresses whose playbook succeeded are ever registered.
THEOREM StableRegisters == Spec => []StableRegistersInstalled
<1>1. Spec => [](Typed /\ Claims)
  <2>1. Init => Typed /\ Claims
      BY TypedInit, ClaimsInit
  <2>2. Typed /\ Claims /\ [Next]_vars => (Typed /\ Claims)'
      BY TypedNext, ClaimsNext
  <2> QED BY <2>1, <2>2, PTL DEF Spec
<1> QED BY <1>1, ClaimsRegister, PTL

-----------------------------------------------------------------------------
(* One handler at a time.                                                   *)

LEMMA MeetsIdle == ASSUME Typed, Meets, overlaps' = 0 PROVE \A j \in Slots : runs[j] = NoRun
<1>1. ~Busy
    BY DEF Meets, Typed, ChatTyped
<1> QED BY <1>1 DEF Busy

LEMMA HeardIdle == ASSUME Typed, Heard, overlaps' = 0 PROVE \A j \in Slots : runs[j] = NoRun
BY MeetsIdle DEF Heard

\* The handlers but i have nothing to do.
Only(i) == \A j \in Slots : j # i => runs[j] = NoRun

LEMMA AloneOnly == ASSUME Alone, NEW i \in Slots, runs[i].kind # "none" PROVE Only(i)
BY DEF Alone, Only, NoRun

LEMMA OrderIdle ==
    ASSUME \A j \in Slots : runs'[j] = NoRun, HysTold', Lent' PROVE InOrder'
BY DEF InOrder, Alone, HysKept, HysRunKept, NoRun

LEMMA OrderPut ==
    ASSUME RunsTyped, NEW i \in Slots, Only(i), NEW r, runs' = [runs EXCEPT ![i] = r], HysTold',
           HysRunKept(r)', Lent'
    PROVE  InOrder' /\ \A j \in Slots : runs'[j] \in {NoRun, r}
<1>1. \A j \in Slots : runs'[j] = IF j = i THEN r ELSE NoRun
    BY DEF RunsTyped, Only
<1>2. HysRunKept(NoRun)'
    BY DEF HysRunKept, NoRun
<1>3. \A j \in Slots : HysRunKept(runs[j])'
    BY <1>1, <1>2
<1>4. Alone'
    BY <1>1 DEF Alone
<1> QED BY <1>1, <1>3, <1>4 DEF InOrder, HysKept

LEMMA HysToldStays == ASSUME HysTold, UNCHANGED <<fsm, data, talk>> PROVE HysTold'
BY DEF HysTold, InHysteria, Authed, AuthedIn

LEMMA HysToldElsewhere == ASSUME fsm'[1] # "hysteria" \/ fsm'[2] \notin Later PROVE HysTold'
BY DEF HysTold, InHysteria, Later

LEMMA LentStays ==
    ASSUME Lent, \A b \in borrowed' : b \in borrowed \/ b[2] \in Excused, mixed \subseteq mixed'
    PROVE  Lent'
BY DEF Lent, Excused

LEMMA ForeignIs ==
    ASSUME Typed, NEW STATE d, AuthedIn(d), FreshIn(d), NEW STATE s, s[1] = talk
    PROVE  Foreign(s, d) \subseteq Excused
<1>1. d[Login(d)] = talk
    BY DEF AuthedIn, Login
<1>2. "leftover" \notin mixed => d["become_pass"] \in {Absent, Nil, talk}
    BY DEF FreshIn
<1> QED BY <1>1, <1>2 DEF Foreign, Credentials, Excused

LEMMA LendsOwn ==
    ASSUME Typed, Lent, NEW STATE servers, \A s \in servers : s[1] = talk, NEW STATE d, AuthedIn(d),
           FreshIn(d), Lends(servers, d), mixed \subseteq mixed'
    PROVE  Lent'
<1>1. \A s \in servers : Foreign(s, d) \subseteq Excused
    BY ForeignIs
<1>2. \A b \in borrowed' : b \in borrowed \/ b[2] \in Excused
    BY <1>1 DEF Lends
<1> QED BY <1>2, LentStays

\* What the hosts wizard may see of a deployment step.
Away ==
    /\ UNCHANGED missing /\ mixed \subseteq mixed'
    /\ UNCHANGED <<fsm, data>> \/ fsm'[1] # "hosts"
    /\ \A j \in Slots : runs'[j].kind \notin {"apply", "preview", "search"}

Calm == InOrder' /\ Away

LEMMA IdleCalm ==
    ASSUME \A j \in Slots : runs'[j] = NoRun, HysTold', Lent', UNCHANGED missing,
           mixed \subseteq mixed', UNCHANGED <<fsm, data>> \/ fsm'[1] # "hosts"
    PROVE  Calm
BY OrderIdle DEF Calm, Away, NoRun

LEMMA PutCalm ==
    ASSUME RunsTyped, NEW i \in Slots, Only(i), NEW r, runs' = [runs EXCEPT ![i] = r], HysTold',
           HysRunKept(r)', Lent', r.kind \notin {"apply", "preview", "search"}, UNCHANGED missing,
           mixed \subseteq mixed', UNCHANGED <<fsm, data>> \/ fsm'[1] # "hosts"
    PROVE  Calm
<1>1. InOrder' /\ \A j \in Slots : runs'[j] \in {NoRun, r}
    BY OrderPut
<1>2. Away
    BY <1>1 DEF Away, NoRun
<1> QED BY <1>1, <1>2 DEF Calm

LEMMA DropCalm ==
    ASSUME Typed, InOrder, overlaps' = 0, Drop, \A b \in borrowed' : b \in borrowed \/ b[2] \in Excused
    PROVE  Calm
<1>1. \A j \in Slots : runs'[j] = NoRun
    BY HeardIdle DEF Drop
<1>2. HysTold' /\ Lent' /\ fsm'[1] # "hosts" /\ UNCHANGED <<missing, mixed>>
    BY HysToldElsewhere, LentStays DEF Drop, Clear, NoState, Heard, InOrder
<1> QED BY <1>1, <1>2, IdleCalm

LEMMA ReplyCalm ==
    ASSUME Typed, InOrder, overlaps' = 0, NEW STATE to, NEW STATE upd, Reply(to, upd), HysTold',
           UNCHANGED borrowed, fsm[1] # "hosts"
    PROVE  Calm
<1>1. \A j \in Slots : runs'[j] = NoRun
    BY HeardIdle DEF Reply
<1>2. Lent' /\ fsm'[1] # "hosts" /\ UNCHANGED <<missing, mixed>>
    BY LentStays DEF Reply, Heard, InOrder
<1> QED BY <1>1, <1>2, IdleCalm

LEMMA StartsCalm ==
    ASSUME Typed, InOrder, overlaps' = 0, NEW r, NEW STATE upd, Starts(r, upd), HysTold', HysRunKept(r)',
           Lent', r.kind \notin {"apply", "preview", "search"}, fsm[1] # "hosts"
    PROVE  Calm
<1>1. PICK i \in Slots : runs' = [runs EXCEPT ![i] = r]
    BY DEF Starts
<1>2. Only(i)
    BY HeardIdle DEF Starts, Only
<1>3. fsm'[1] # "hosts" /\ UNCHANGED <<missing, mixed>>
    BY DEF Starts, Heard
<1> QED BY <1>1, <1>2, <1>3, PutCalm DEF Typed

LEMMA EndsCalm ==
    ASSUME Typed, InOrder, NEW i \in Slots, Only(i), EndsClearing(i) \/ Refused(i) \/ Breaks(i),
           \A b \in borrowed' : b \in borrowed \/ b[2] \in Excused
    PROVE  Calm
<1>1. runs' = [runs EXCEPT ![i] = NoRun] /\ UNCHANGED <<missing, mixed, talk>>
    BY DEF EndsClearing, Refused, Breaks, Ends, Fails, Quits, Unheard
<1>2. \A j \in Slots : runs'[j] = NoRun
    BY <1>1 DEF Typed, RunsTyped, Only
<1>3. UNCHANGED <<fsm, data>> \/ fsm' = NoState
    BY DEF EndsClearing, Refused, Breaks, Clear
<1>4. HysTold'
    BY <1>1, <1>3, HysToldStays, HysToldElsewhere DEF InOrder, HysKept, NoState
<1>5. Lent'
    BY <1>1, LentStays DEF InOrder
<1> QED BY <1>1, <1>2, <1>3, <1>4, <1>5, IdleCalm DEF NoState

LEMMA LoginCalm == ASSUME Typed, InOrder, overlaps' = 0, LoginStep PROVE Calm
<1>1. fsm[1] \in Presets /\ fsm[1] # "hosts"
    BY DEF LoginStep, Presets
<1>2. ASSUME NEW to \in {"passphrase", "become", "secret"}, NEW STATE upd, Reply(to, upd), StillHere
      PROVE  Calm
  <2>1. HysTold'
      BY <1>2, HysToldElsewhere DEF Reply, Later
  <2> QED BY <1>1, <1>2, <2>1, ReplyCalm DEF StillHere, deployVars
<1>3. ASSUME NEW upd, Given(upd), Installs(upd) PROVE Calm
  <2>1. AuthedIn(Update(upd)) /\ FreshIn(Update(upd)) /\ fsm[2] \in AfterLogin
      BY <1>1, <1>3, GivenIs
  <2>2. CASE Drop /\ UNCHANGED borrowed
      BY <2>2, DropCalm
  <2>3. CASE fsm[1] = "remnanode" /\ Starts(InstallRun, upd) /\ Lends(Own, Update(upd))
    <3>1. PICK r : r = InstallRun
        OBVIOUS
    <3>2. r.kind = "install" /\ Starts(r, upd)
        BY <2>3, <3>1 DEF InstallRun
    <3>3. HysRunKept(r)' /\ HysTold'
        BY <2>3, <3>2, HysToldElsewhere DEF HysRunKept, Starts
    <3>4. \A s \in Own : s[1] = talk
        BY DEF Own
    <3>5. Lent'
        BY <2>1, <2>3, <3>4, LendsOwn DEF InOrder, Starts, Heard
    <3> QED BY <1>1, <3>2, <3>3, <3>5, StartsCalm
  <2>4. CASE fsm[1] = "hysteria" /\ Starts(HysRun, upd) /\ Lends({<<talk, 1>>}, Update(upd))
    <3>1. PICK r : r = HysRun
        OBVIOUS
    <3>2. r.kind = "hys_install" /\ Starts(r, upd)
        BY <2>4, <3>1 DEF HysRun
    <3>3. fsm' = fsm /\ data' = Update(upd) /\ talk' = talk /\ mixed' = mixed
        BY <2>4 DEF Starts, Heard
    <3>4. HysTold'
        BY <2>1, <3>3, HysToldElsewhere DEF Later, AfterLogin
    <3>5. HysRunKept(r)'
        BY <2>1, <2>4, <3>2, <3>3 DEF HysRunKept, InHysteria, Authed, AuthedIn
    <3>6. \A s \in {<<talk, 1>>} : s[1] = talk
        OBVIOUS
    <3>7. Lent'
        BY <2>1, <2>4, <3>3, <3>6, LendsOwn DEF InOrder
    <3> QED BY <1>1, <3>2, <3>4, <3>5, <3>7, StartsCalm
  <2> QED BY <1>3, <2>2, <2>3, <2>4 DEF Installs
<1>4. ASSUME NEW upd, Gives(upd), StillHere,
             Reply("become", upd) \/ (fsm[1] = "remnanode" /\ Reply("secret", upd))
      PROVE  Calm
    BY <1>2, <1>4
<1>5. CASE fsm[2] = "auth" /\ StillHere
           /\ Reply("passphrase", [auth_method |-> "key", key_data |-> talk])
    BY <1>2, <1>5
<1> QED BY <1>3, <1>4, <1>5 DEF LoginStep

LEMMA AnswersCalm ==
    ASSUME Typed, InOrder, overlaps' = 0,
           PanelChosen \/ GotIp \/ GotLogin \/ GotSecretKey
              \/ HysPanelChosen \/ HysGotIp \/ HysGotLogin \/ HysManualZoneStart
    PROVE  Calm
<1>1. ASSUME NEW STATE to, to \notin Later, NEW STATE upd, Reply(to, upd), StillHere, fsm[1] # "hosts"
      PROVE  Calm
  <2>1. HysTold'
      BY <1>1, HysToldElsewhere DEF Reply
  <2> QED BY <1>1, <2>1, ReplyCalm DEF StillHere, deployVars
<1>2. CASE HysManualZoneStart
  <2>1. /\ Reply("manual", Nothing) /\ StillHere /\ fsm = <<"hysteria", "zone">>
        /\ fsm' = <<"hysteria", "manual">> /\ UNCHANGED <<data, talk>>
      BY <1>2, NothingIs DEF HysManualZoneStart, At, Reply, Heard, Typed
  <2>2. HysTold'
      BY <2>1 DEF InOrder, HysKept, HysTold, InHysteria, Later, Authed, AuthedIn
  <2> QED BY <2>1, <2>2, ReplyCalm DEF StillHere, deployVars
<1>3. {"ip", "login", "auth", "port"} \cap Later = {}
    BY DEF Later
<1>4. ASSUME NEW w \in Presets, NEW choices, ChoosesPanel(w, choices) PROVE Calm
  <2>1. StillHere /\ fsm[1] # "hosts" /\ \E upd : Reply("ip", upd)
      BY <1>4 DEF ChoosesPanel, At, Presets
  <2> QED BY <1>1, <1>3, <2>1
<1>5. ASSUME NEW w \in Presets, GivesLogin(w) PROVE Calm
  <2>1. StillHere /\ fsm[1] # "hosts" /\ \E upd : Reply("auth", upd)
      BY <1>5 DEF GivesLogin, At, Presets
  <2> QED BY <1>1, <1>3, <2>1
<1>6. GotIp => StillHere /\ fsm[1] # "hosts" /\ \E upd : Reply("login", upd)
    BY DEF GotIp, At
<1>7. HysGotIp => StillHere /\ fsm[1] # "hosts" /\ \E upd : Reply("login", upd)
    BY DEF HysGotIp, At
<1>8. GotSecretKey => StillHere /\ fsm[1] # "hosts" /\ \E upd : Reply("port", upd)
    BY DEF GotSecretKey, At
<1> QED BY <1>1, <1>2, <1>3, <1>4, <1>5, <1>6, <1>7, <1>8
        DEF PanelChosen, HysPanelChosen, GotLogin, HysGotLogin, Presets

\* Nothing is missing where one handler works at a time.
LEMMA ChoicesCalm ==
    ASSUME Typed, InOrder, overlaps' = 0,
           ConfigProfileChosen \/ HysProfileChosen \/ HysZoneSelected \/ HysGotManualZone
              \/ CancelDeploy
    PROVE  Calm
<1>1. UNCHANGED borrowed
    BY DEF ConfigProfileChosen, HysProfileChosen, HysZoneSelected, HysGotManualZone, CancelDeploy,
           StillHere, deployVars
<1>2. Drop => Calm
    BY <1>1, DropCalm
<1>3. ASSUME NEW r, Starts(r, Nothing), HysRunKept(r)', fsm[1] # "hosts",
             r.kind \notin {"apply", "preview", "search"}
      PROVE  Calm
  <2>1. UNCHANGED <<fsm, data, talk, mixed>>
      BY <1>3, NothingIs DEF Starts, Heard, Typed
  <2>2. HysTold' /\ Lent'
      BY <1>1, <2>1, HysToldStays, LentStays DEF InOrder, HysKept
  <2> QED BY <1>3, <2>2, StartsCalm
<1>4. Absent \notin Panels
    BY ChatAssumption
<1>5. CASE ConfigProfileChosen
  <2>1. fsm = <<"remnanode", "profile">>
      BY <1>5 DEF ConfigProfileChosen, At
  <2>2. ~Lacks({"panel_id", "node_addresses"})
    <3>1. data["panel_id"] \in Panels /\ data["node_addresses"] \subseteq Servers
        BY <2>1 DEF Typed, Told
    <3>2. data["panel_id"] # Absent /\ data["node_addresses"] # Absent
        BY <1>4, <3>1, DeployAssumption
    <3> QED BY <3>2 DEF Lacks
  <2>3. Drop \/ \E p \in Profiles : Starts(RegisterRun(p), Nothing)
      BY <1>5, <2>2 DEF ConfigProfileChosen, RegisterRun
  <2>4. ASSUME NEW p, Starts(RegisterRun(p), Nothing) PROVE Calm
    <3>1. PICK r : r = RegisterRun(p)
        OBVIOUS
    <3>2. r.kind = "register" /\ Starts(r, Nothing)
        BY <2>4, <3>1 DEF RegisterRun
    <3>3. HysRunKept(r)'
        BY <3>2 DEF HysRunKept
    <3> QED BY <1>3, <2>1, <3>2, <3>3
  <2> QED BY <1>2, <2>3, <2>4
<1>6. CASE HysProfileChosen
  <2>1. fsm = <<"hysteria", "profile">> /\ InHysteria(Later)
      BY <1>6 DEF HysProfileChosen, At, InHysteria, Later
  <2>2. ~Lacks({"panel_id"})
    <3>1. data["panel_id"] \in Panels
        BY <2>1 DEF InOrder, HysKept, HysTold
    <3> QED BY <1>4, <3>1 DEF Lacks
  <2>3. Drop \/ \E p \in Profiles : Starts(Lookup(<<"hysteria", "zone">>, [profile |-> p]), Nothing)
      BY <1>6, <2>2 DEF HysProfileChosen
  <2>4. ASSUME NEW p, Starts(Lookup(<<"hysteria", "zone">>, [profile |-> p]), Nothing) PROVE Calm
    <3>1. PICK r : r = Lookup(<<"hysteria", "zone">>, [profile |-> p])
        OBVIOUS
    <3>2. r.kind = "lookup" /\ r.to = <<"hysteria", "zone">> /\ Starts(r, Nothing)
        BY <2>4, <3>1 DEF Lookup
    <3>3. fsm' = fsm
        BY <3>2 DEF Starts
    <3>4. HysRunKept(r)'
        BY <2>1, <3>2, <3>3 DEF HysRunKept, InHysteria
    <3> QED BY <1>3, <2>1, <3>2, <3>4
  <2> QED BY <1>2, <2>3, <2>4
<1>7. CASE HysZoneSelected \/ HysGotManualZone
  <2>1. fsm[1] = "hysteria" /\ InHysteria({"zone", "manual"})
      BY <1>7 DEF HysZoneSelected, HysGotManualZone, At, InHysteria
  <2>2. PICK r : r = Lookup(<<"hysteria", "subdomain">>, [zone |-> talk])
      OBVIOUS
  <2>3. r.kind = "lookup" /\ r.to = <<"hysteria", "subdomain">> /\ Starts(r, Nothing)
      BY <1>7, <2>2 DEF Lookup, HysZoneSelected, HysGotManualZone
  <2>4. fsm' = fsm
      BY <2>3 DEF Starts
  <2>5. HysRunKept(r)'
      BY <2>1, <2>3, <2>4 DEF HysRunKept, InHysteria
  <2> QED BY <1>3, <2>1, <2>3, <2>5
<1>8. CASE CancelDeploy
    BY <1>2, <1>8 DEF CancelDeploy
<1> QED BY <1>5, <1>6, <1>7, <1>8

LEMMA SubdomainCalm == ASSUME Typed, InOrder, overlaps' = 0, HysGotSubdomain PROVE Calm
<1>1. fsm = <<"hysteria", "subdomain">> /\ UNCHANGED borrowed
    BY SubdomainIs
<1>2. /\ data["ip"] = <<talk, 1>> /\ data["panel_id"] \in Panels /\ data["login"] # Absent /\ Authed
      /\ data["profile"] # Absent /\ data["zone"] # Absent
    BY <1>1 DEF InOrder, HysKept, HysTold, InHysteria, Later
<1>3. ~Lacks({"zone", "ip", "panel_id", "profile"})
  <2>1. data["ip"] # Absent
      BY <1>1 DEF InOrder, HysKept, HysTold, InHysteria, Later
  <2>2. data["panel_id"] # Absent
      BY <1>2, ChatAssumption
  <2> QED BY <1>2, <2>1, <2>2 DEF Lacks
<1>4. ASSUME NEW d \in Domains, Starts(PipelineRun(d), Nothing) PROVE Calm
  <2>1. PICK r : r = PipelineRun(d)
      OBVIOUS
  <2>2. /\ r.kind = "pipeline" /\ r.login = data["login"] /\ r.foreign = Foreign(data["ip"], data)
        /\ Starts(r, Nothing)
      BY <1>4, <2>1 DEF PipelineRun
  <2>3. UNCHANGED <<fsm, data, talk, mixed>>
      BY <2>2, NothingIs DEF Starts, Heard, Typed
  <2>4. Foreign(data["ip"], data) \subseteq Excused
    <3>1. data["ip"][1] = talk
        BY <1>2
    <3> QED BY <1>2, <3>1, ForeignIs, DataIs DEF Authed
  <2>5. HysRunKept(r)'
      BY <1>2, <2>2, <2>3, <2>4 DEF HysRunKept, Excused
  <2>6. HysTold' /\ Lent'
      BY <1>1, <2>3, HysToldStays, LentStays DEF InOrder, HysKept
  <2> QED BY <1>1, <2>2, <2>5, <2>6, StartsCalm
<1> QED BY <1>1, <1>3, <1>4, SubdomainIs, DropCalm

LEMMA EntersCalm ==
    ASSUME Typed, InOrder, overlaps' = 0, NEW w \in Presets, Enters(w), StillHere PROVE Calm
<1>1. \A j \in Slots : runs'[j] = NoRun
    BY MeetsIdle DEF Enters
<1>2. fsm' = <<w, "panel">> /\ UNCHANGED missing /\ mixed \subseteq mixed'
    BY DEF Enters
<1>3. HysTold' /\ Lent' /\ fsm'[1] # "hosts"
    BY <1>2, HysToldElsewhere, LentStays DEF Later, Presets, StillHere, deployVars, InOrder
<1> QED BY <1>1, <1>2, <1>3, IdleCalm

LEMMA InstallCalm ==
    ASSUME Typed, InOrder, NEW i \in Slots, InstallPlaybooks(i) \/ InstallProfiles(i) \/ RegisterEnds(i)
    PROVE  Calm
<1> DEFINE r == runs[i]
<1>1. RunTyped(r) /\ r.kind \in {"install", "register"}
    BY DEF Typed, RunsTyped, InstallPlaybooks, InstallProfiles, RegisterEnds
<1>2. Only(i)
    BY <1>1, AloneOnly DEF InOrder
<1>3. UNCHANGED borrowed
    BY DEF InstallPlaybooks, InstallProfiles, RegisterEnds, StillHere, deployVars
<1>4. EndsClearing(i) \/ Refused(i) \/ Breaks(i) => Calm
    BY <1>2, <1>3, EndsCalm
<1>5. CASE InstallPlaybooks(i)
  <2>1. ASSUME NEW ok, runs' = [runs EXCEPT ![i].at = "profiles", ![i].servers = ok], Unheard,
               UNCHANGED <<fsm, data>>
        PROVE  Calm
    <3>1. PICK run : run = [r EXCEPT !.at = "profiles", !.servers = ok]
        OBVIOUS
    <3>2. runs' = [runs EXCEPT ![i] = run] /\ run.kind = "install"
        BY <1>1, <1>5, <2>1, <3>1 DEF Typed, RunsTyped, RunTyped, InstallTyped, InstallPlaybooks
    <3>3. HysTold' /\ Lent' /\ UNCHANGED <<missing, mixed>>
        BY <1>3, <2>1, HysToldStays, LentStays DEF InOrder, HysKept, Unheard
    <3>4. HysRunKept(run)'
        BY <3>2 DEF HysRunKept
    <3> QED BY <1>2, <2>1, <3>2, <3>3, <3>4, PutCalm DEF Typed
  <2>2. EndsClearing(i) \/ \E ok : /\ runs' = [runs EXCEPT ![i].at = "profiles", ![i].servers = ok]
                                  /\ Unheard /\ UNCHANGED <<fsm, data>>
      BY <1>5 DEF InstallPlaybooks
  <2> QED BY <1>4, <2>1, <2>2
<1>6. CASE InstallProfiles(i)
  <2>1. CASE Ends(i) /\ fsm' = <<"remnanode", "profile">>
    <3>1. \A j \in Slots : runs'[j] = NoRun
        BY <1>2, <2>1 DEF Ends, Quits, Typed, RunsTyped, Only
    <3>2. HysTold' /\ Lent' /\ UNCHANGED <<missing, mixed>>
        BY <1>3, <2>1, HysToldElsewhere, LentStays DEF InOrder, Ends, Quits, Unheard
    <3> QED BY <2>1, <3>1, <3>2, IdleCalm
  <2> QED BY <1>4, <1>6, <2>1 DEF InstallProfiles
<1>7. CASE RegisterEnds(i)
    BY <1>4, <1>7 DEF RegisterEnds
<1> QED BY <1>5, <1>6, <1>7

LEMMA GoesOnCalm ==
    ASSUME Typed, InOrder, NEW i \in Slots, runs[i].kind \in {"hys_install", "pipeline"}, NEW at,
           GoesOn(i, at), \A b \in borrowed' : b \in borrowed \/ b[2] \in Excused
    PROVE  Calm
<1> DEFINE r == runs[i]
<1>1. PICK run : run = [r EXCEPT !.at = at]
    OBVIOUS
<1>2. runs' = [runs EXCEPT ![i] = run] /\ RunTyped(r)
    BY <1>1 DEF GoesOn, Typed, RunsTyped
<1>3. /\ run.kind = r.kind
      /\ r.kind = "pipeline" => run.foreign = r.foreign /\ run.login = r.login
    BY <1>1, <1>2 DEF RunTyped, PipelineTyped
<1>4. UNCHANGED <<fsm, data, missing, talk, mixed>>
    BY DEF GoesOn, Unheard
<1>5. HysTold' /\ Lent'
    BY <1>4, HysToldStays, LentStays DEF InOrder, HysKept
<1>6. HysRunKept(r)
    BY DEF InOrder, HysKept
<1>7. HysRunKept(run)'
    BY <1>3, <1>4, <1>6 DEF HysRunKept, InHysteria, Authed, AuthedIn, Excused
<1>8. Only(i)
    BY AloneOnly DEF InOrder
<1> QED BY <1>2, <1>3, <1>4, <1>5, <1>7, <1>8, PutCalm DEF Typed

LEMMA HysInstallCalm ==
    ASSUME Typed, InOrder, NEW i \in Slots, HysInstallPlaybook(i) \/ HysInstallProfiles(i) PROVE Calm
<1>1. runs[i].kind = "hys_install" /\ UNCHANGED borrowed
    BY DEF HysInstallPlaybook, HysInstallProfiles, StillHere, deployVars
<1>2. Only(i) /\ HysRunKept(runs[i])
    BY <1>1, AloneOnly DEF InOrder, HysKept
<1>3. EndsClearing(i) \/ Refused(i) \/ Breaks(i) => Calm
    BY <1>1, <1>2, EndsCalm
<1>4. CASE HysInstallPlaybook(i)
    BY <1>1, <1>3, <1>4, GoesOnCalm DEF HysInstallPlaybook
<1>5. CASE HysInstallProfiles(i)
  <2>1. CASE Ends(i) /\ fsm' = <<"hysteria", "profile">> /\ UNCHANGED data
    <3>1. fsm[1] = "hysteria" /\ fsm[2] \in AfterLogin /\ Authed
        BY <1>1, <1>2 DEF HysRunKept, InHysteria
    <3>2. /\ data["ip"] = <<talk, 1>> /\ data["panel_id"] \in Panels /\ data["login"] # Absent
        BY <3>1 DEF Typed, Told, AfterIp, AfterPanel, Presets
    <3>3. data["ip"] # Absent
        BY <3>1, <3>2, HysServerOwn, DeployAssumption DEF AfterIp, AfterPanel
    <3>4. UNCHANGED <<talk, missing, mixed>> /\ runs' = [runs EXCEPT ![i] = NoRun]
        BY <2>1 DEF Ends, Quits, Unheard
    <3>5. HysTold'
        BY <2>1, <3>1, <3>2, <3>3, <3>4 DEF HysTold, InHysteria, Authed, AuthedIn
    <3>6. \A j \in Slots : runs'[j] = NoRun
        BY <1>2, <3>4 DEF Typed, RunsTyped, Only
    <3>7. Lent'
        BY <1>1, <3>4, LentStays DEF InOrder
    <3> QED BY <2>1, <3>4, <3>5, <3>6, <3>7, IdleCalm
  <2> QED BY <1>3, <1>5, <2>1 DEF HysInstallProfiles
<1> QED BY <1>4, <1>5

LEMMA PipelineCalm ==
    ASSUME Typed, InOrder, NEW i \in Slots,
           PipelineDnsGet(i) \/ PipelineDnsPut(i) \/ PipelineCert(i) \/ PipelineProfile(i)
              \/ PipelineNode(i)
    PROVE  Calm
<1> DEFINE r == runs[i]
<1>1. r.kind = "pipeline" /\ PipelineTyped(r)
    BY PipelineIs
<1>2. Only(i) /\ HysRunKept(r) /\ r.foreign \subseteq Excused /\ r.login # Absent
    BY <1>1, AloneOnly DEF InOrder, HysKept, HysRunKept
<1>3. \A b \in borrowed' : b \in borrowed \/ b[2] \in Excused
  <2>1. \/ UNCHANGED borrowed
        \/ borrowed' = borrowed \cup ({r.of.server} \X r.foreign)
      BY PipelineIs
  <2> QED BY <1>2, <2>1
<1>4. ASSUME Unheard, UNCHANGED <<fsm, data>>,
             runs' = [runs EXCEPT ![i].at = "dns_put", ![i].found = dns[r.of.domain] # <<>>]
      PROVE  Calm
  <2>1. PICK run : run = [r EXCEPT !.at = "dns_put", !.found = dns[r.of.domain] # <<>>]
      OBVIOUS
  <2>2. runs' = [runs EXCEPT ![i] = run]
      BY <1>4, <2>1 DEF Typed, RunsTyped
  <2>3. run.kind = "pipeline" /\ run.foreign = r.foreign /\ run.login = r.login
      BY <1>1, <2>1 DEF PipelineTyped
  <2>4. UNCHANGED <<fsm, data, missing, talk, mixed>>
      BY <1>4 DEF Unheard
  <2>5. HysTold' /\ Lent'
      BY <1>3, <2>4, HysToldStays, LentStays DEF InOrder, HysKept
  <2>6. HysRunKept(run)'
      BY <1>2, <2>3, <2>4 DEF HysRunKept, Excused
  <2> QED BY <1>2, <2>2, <2>3, <2>4, <2>5, <2>6, PutCalm DEF Typed
<1> QED BY <1>1, <1>2, <1>3, <1>4, PipelineIs, EndsCalm, GoesOnCalm

LEMMA DeployCalm == ASSUME Typed, InOrder, overlaps' = 0, DeployNext PROVE Calm
<1>1. ASSUME NEW w \in Presets, Enters(w), StillHere PROVE Calm
    BY <1>1, EntersCalm
<1>2. ASSUME NEW i \in Slots, DeployRun(i) PROVE Calm
    BY <1>2, InstallCalm, HysInstallCalm, PipelineCalm DEF DeployRun
<1>3. CASE StableStep \/ HysteriaStep \/ CancelDeploy
    BY <1>1, <1>3, DeployStepsAre, LoginCalm, AnswersCalm, ChoicesCalm, SubdomainCalm
<1> QED BY <1>2, <1>3 DEF DeployNext

-----------------------------------------------------------------------------
(* What the hosts wizard keeps.                                             *)

LEMMA HostsToldElsewhere == ASSUME fsm'[1] # "hosts" PROVE HostsTold' /\ ShownTold'
BY DEF HostsTold, ShownTold, InHosts

LEMMA HostsToldStays == ASSUME HostsTold, UNCHANGED <<fsm, data>> PROVE HostsTold'
BY DEF HostsTold, InHosts, Has, Lacks, AutoHow

LEMMA ShownTables ==
    ASSUME UNCHANGED hostTag, NEW tag, NEW how
    PROVE  Targets(tag)' = Targets(tag) /\ Pairs(how, Targets(tag))' = Pairs(how, Targets(tag))
<1>1. Targets(tag)' = Targets(tag)
    BY DEF Targets
<1>2. \A hosts : Pairs(how, hosts)' = Pairs(how, hosts)
    BY DEF Pairs, SameIp, Zip
<1> QED BY <1>1, <1>2

LEMMA ShownToldStays ==
    ASSUME ShownTold, UNCHANGED <<fsm, data, hostTag>>, shown' \in {shown, {}} PROVE ShownTold'
<1>1. AutoHow' = AutoHow
    BY DEF AutoHow
<1>2. Targets(data["selected_tag"])' = Targets(data["selected_tag"])
    BY DEF Targets
<1>3. /\ Pairs(AutoHow, Targets(data["selected_tag"]))' = Pairs(AutoHow, Targets(data["selected_tag"]))
      /\ Pairs(Each(data["set_id"]), Targets(data["selected_tag"]))'
            = Pairs(Each(data["set_id"]), Targets(data["selected_tag"]))
    BY <1>1, <1>2 DEF Pairs, SameIp, Zip, Each
<1> QED BY <1>1, <1>2, <1>3 DEF ShownTold, InHosts

\* A step of a deployment, seen from the hosts wizard.
LEMMA AwayGood ==
    ASSUME HostsGood, Away, UNCHANGED hostsVars PROVE HostsGood'
<1>1. \A j \in Slots : HostsRunKept(runs[j])' /\ ShownRun(runs[j])'
  <2> SUFFICES ASSUME NEW j \in Slots PROVE HostsRunKept(runs[j])' /\ ShownRun(runs[j])'
      OBVIOUS
  <2>1. runs'[j].kind \notin {"apply", "preview", "search"}
      BY DEF Away
  <2> QED BY <2>1 DEF HostsRunKept, ShownRun
<1>2. UNCHANGED <<hostTag, shown, unlike, missing>> /\ mixed \subseteq mixed'
    BY DEF Away, hostsVars
<1>3. HostsTold => HostsTold'
    BY HostsToldElsewhere, HostsToldStays DEF Away
<1>4. ShownTold => ShownTold'
    BY <1>2, HostsToldElsewhere, ShownToldStays DEF Away
<1> QED BY <1>1, <1>2, <1>3, <1>4 DEF HostsGood, HostsKept, Shown

\* What a step of the hosts wizard must leave behind.
ToldGood == /\ "stray" \notin mixed => HostsTold /\ missing = {}
            /\ "retagged" \notin mixed => ShownTold /\ unlike = {}

RunGood(r) == /\ "stray" \notin mixed => HostsRunKept(r)
              /\ "retagged" \notin mixed => ShownRun(r)

LEMMA GoodIs == HostsGood <=> ToldGood /\ \A j \in Slots : RunGood(runs[j])
BY DEF HostsGood, HostsKept, Shown, ToldGood, RunGood

LEMMA OthersGood ==
    ASSUME NEW r, r.kind \notin {"apply", "preview", "search"} PROVE RunGood(r)'
BY DEF RunGood, HostsRunKept, ShownRun

LEMMA IdleGood ==
    ASSUME \A j \in Slots : runs'[j] = NoRun, HysTold', Lent', ToldGood' PROVE InOrder' /\ HostsGood'
<1>1. RunGood(NoRun)'
    BY DEF RunGood, NoRun, HostsRunKept, ShownRun
<1>2. \A j \in Slots : RunGood(runs[j])'
    BY <1>1
<1>3. HostsGood'
    BY <1>2 DEF HostsGood, HostsKept, Shown, ToldGood, RunGood
<1> QED BY <1>3, OrderIdle

LEMMA PutGood ==
    ASSUME RunsTyped, NEW i \in Slots, Only(i), NEW r, runs' = [runs EXCEPT ![i] = r], HysTold',
           HysRunKept(r)', Lent', ToldGood', RunGood(r)'
    PROVE  InOrder' /\ HostsGood'
<1>1. InOrder' /\ \A j \in Slots : runs'[j] \in {NoRun, r}
    BY OrderPut
<1>2. RunGood(NoRun)'
    BY DEF RunGood, NoRun, HostsRunKept, ShownRun
<1>3. \A j \in Slots : RunGood(runs[j])'
    BY <1>1, <1>2
<1>4. HostsGood'
    BY <1>3 DEF HostsGood, HostsKept, Shown, ToldGood, RunGood
<1> QED BY <1>1, <1>4

\* The data and the hosts stay as they are.
LEMMA ToldGoodStays ==
    ASSUME ToldGood, UNCHANGED <<fsm, data, hostTag>>, shown' \in {shown, {}}, mixed \subseteq mixed',
           "stray" \notin mixed => UNCHANGED missing, "retagged" \notin mixed => UNCHANGED unlike
    PROVE  ToldGood'
BY HostsToldStays, ShownToldStays DEF ToldGood

\* The dialogue is left.
LEMMA ToldGoodElsewhere ==
    ASSUME ToldGood, fsm'[1] # "hosts", mixed \subseteq mixed',
           "stray" \notin mixed => UNCHANGED missing, "retagged" \notin mixed => UNCHANGED unlike
    PROVE  ToldGood'
BY HostsToldElsewhere DEF ToldGood

\* It stands where nothing is confirmed.
Plain == {"panel", "tag", "mode", "address", "source", "distribution", "ipset"}

LEMMA ToldGoodPlain ==
    ASSUME ToldGood, NEW to \in Plain, fsm' = <<"hosts", to>>, UNCHANGED unlike, mixed \subseteq mixed',
           "stray" \notin mixed' => Has(Needs[to])' /\ UNCHANGED missing
    PROVE  ToldGood'
<1>1. ShownTold'
    BY DEF ShownTold, InHosts, Plain
<1>2. Has(Needs[to])' => HostsTold'
    BY DEF HostsTold, InHosts, Plain
<1> QED BY <1>1, <1>2 DEF ToldGood

\* An update keeps the keys it does not write.
LEMMA HasStays ==
    ASSUME NEW K, Has(K), NEW L \in SUBSET Keys, NEW STATE upd, data' = Update(upd),
           \A k \in L : IF k \in DOMAIN upd THEN upd[k] # Absent ELSE k \in K
    PROVE  Has(L)'
BY DEF Has, Lacks, Update

LEMMA HostsDropGood ==
    ASSUME Typed, InOrder, HostsGood, overlaps' = 0, UNCHANGED <<borrowed, unlike>>, Drop
    PROVE  InOrder' /\ HostsGood'
<1>1. \A j \in Slots : runs'[j] = NoRun
    BY HeardIdle DEF Drop
<1>2. fsm' = NoState /\ UNCHANGED <<missing, mixed>>
    BY DEF Drop, Clear, Heard
<1>3. HysTold' /\ Lent'
    BY <1>2, HysToldElsewhere, LentStays DEF InOrder, NoState
<1>4. ToldGood'
    BY <1>2, GoodIs, ToldGoodElsewhere DEF NoState
<1> QED BY <1>1, <1>3, <1>4, IdleGood

LEMMA HostsReplyGood ==
    ASSUME Typed, InOrder, HostsGood, overlaps' = 0, UNCHANGED <<borrowed, unlike>>, fsm[1] = "hosts",
           NEW to \in Plain, NEW STATE upd, Reply(to, upd), "stray" \notin mixed => Has(Needs[to])'
    PROVE  InOrder' /\ HostsGood'
<1>1. \A j \in Slots : runs'[j] = NoRun
    BY HeardIdle DEF Reply
<1>2. fsm' = <<"hosts", to>> /\ UNCHANGED <<missing, mixed>>
    BY DEF Reply, Heard
<1>3. HysTold' /\ Lent'
    BY <1>2, HysToldElsewhere, LentStays DEF InOrder
<1>4. ToldGood'
    BY <1>2, GoodIs, ToldGoodPlain
<1> QED BY <1>1, <1>3, <1>4, IdleGood

LEMMA HostsRaisesGood ==
    ASSUME Typed, InOrder, HostsGood, overlaps' = 0, UNCHANGED <<borrowed, unlike>>, fsm[1] = "hosts",
           NEW STATE handler, NEW STATE upd, Raises(handler, upd), "stray" \in mixed,
           ShownTold => ShownTold'
    PROVE  InOrder' /\ HostsGood'
<1>1. \A j \in Slots : runs'[j] = NoRun
    BY HeardIdle DEF Raises
<1>2. UNCHANGED <<fsm, mixed>>
    BY DEF Raises, Heard
<1>3. HysTold' /\ Lent'
    BY <1>2, HysToldElsewhere, LentStays DEF InOrder
<1>4. ToldGood'
    BY <1>2, GoodIs DEF ToldGood
<1> QED BY <1>1, <1>3, <1>4, IdleGood

\* A handler goes to work.
LEMMA HostsPutGood ==
    ASSUME Typed, InOrder, overlaps' = 0, UNCHANGED borrowed, Heard, NEW i \in Slots, NEW r,
           runs' = [runs EXCEPT ![i] = r], fsm'[1] # "hysteria", HysRunKept(r)', ToldGood', RunGood(r)'
    PROVE  InOrder' /\ HostsGood'
<1>1. Only(i)
    BY HeardIdle DEF Only
<1>2. HysTold' /\ Lent'
    BY HysToldElsewhere, LentStays DEF InOrder, Heard
<1> QED BY <1>1, <1>2, PutGood DEF Typed

\* The handler reads keys that the dialogue has stored where it stands.
LEMMA LacksNone ==
    ASSUME HostsGood, fsm[1] = "hosts", NEW K, K \subseteq Needs[fsm[2]], Lacks(K) PROVE "stray" \in mixed
BY DEF HostsGood, HostsKept, HostsTold, Has, Lacks

LEMMA HasAt ==
    ASSUME HostsGood, NEW step, fsm = <<"hosts", step>>, "stray" \notin mixed PROVE Has(Needs[step])
BY DEF HostsGood, HostsKept, HostsTold

LEMMA HostsAnswersGood ==
    ASSUME Typed, InOrder, HostsGood, overlaps' = 0, UNCHANGED deployVars,
           \/ HostsMenu \/ HostsPanelChosen \/ TagChosen \/ TopManual \/ TopIpsets
           \/ \E source \in {"auto", "manual"} : SourceChosen(source)
           \/ \E distribution \in {"same", "each"} : DistChosen(distribution)
    PROVE  InOrder' /\ HostsGood'
<1>1. UNCHANGED <<borrowed, unlike, hostTag, shown>>
  <2>1. AsShown
      BY DEF HostsMenu, HostsPanelChosen, TagChosen, TopManual, TopIpsets, SourceChosen, DistChosen
  <2> QED BY <2>1 DEF AsShown, hostsVars, deployVars
<1>2. Absent \notin Panels /\ Absent \notin Tags /\ \A T \in SUBSET Tags : T # Absent
    BY ChatAssumption, HostsAssumption
<1>3. \A keys \in {ForTag, ForMode, ForDist, ForSet, ForShow} : keys \subseteq Keys
    BY DEF ForTag, ForMode, ForDist, ForSet, ForShow, Keys
<1>4. CASE HostsMenu
  <2>1. fsm' = <<"hosts", "panel">> /\ mixed \subseteq mixed' /\ UNCHANGED missing
      BY <1>4 DEF HostsMenu, Enters
  <2>2. \A j \in Slots : runs'[j] = NoRun
      BY <1>4, MeetsIdle DEF HostsMenu, Enters
  <2>3. Has(Needs["panel"])' /\ "panel" \in Plain
      BY DEF Has, Lacks, Needs, Plain
  <2>4. ToldGood'
      BY <1>1, <2>1, <2>3, GoodIs, ToldGoodPlain
  <2>5. HysTold' /\ Lent'
      BY <1>1, <2>1, HysToldElsewhere, LentStays DEF InOrder
  <2> QED BY <2>2, <2>4, <2>5, IdleGood
<1>5. CASE HostsPanelChosen
  <2> DEFINE T == {hostTag[h] : h \in Hosts}
  <2> HIDE DEF T
  <2>1. PICK p \in Panels : Starts(Lookup(<<"hosts", "tag">>, [panel_id |-> p, tags |-> T]), Nothing)
      BY <1>5 DEF HostsPanelChosen, T
  <2>2. PICK r : r = Lookup(<<"hosts", "tag">>, [panel_id |-> p, tags |-> T])
      OBVIOUS
  <2>3. r.kind = "lookup" /\ r.to = <<"hosts", "tag">>
      BY <2>2 DEF Lookup
  <2>4. PICK i \in Slots : runs' = [runs EXCEPT ![i] = r]
      BY <2>1, <2>2 DEF Starts
  <2>5. Heard /\ UNCHANGED <<fsm, data, missing, mixed>>
      BY <2>1, NothingIs DEF Starts, Heard, Typed
  <2>6. fsm'[1] # "hysteria" /\ HysRunKept(r)' /\ RunGood(r)'
      BY <1>5, <2>3, <2>5, OthersGood DEF HostsPanelChosen, In, HysRunKept
  <2>7. ToldGood'
      BY <1>1, <2>5, GoodIs, ToldGoodStays
  <2> QED BY <1>1, <2>4, <2>5, <2>6, <2>7, HostsPutGood
<1>6. CASE TagChosen
  <2>1. fsm = <<"hosts", "tag">>
      BY <1>6 DEF TagChosen, In
  <2>2. ASSUME Lacks({"tags"}), Raises("tag_chosen", Nothing) PROVE InOrder' /\ HostsGood'
    <3>1. "stray" \in mixed
        BY <2>1, <2>2, LacksNone DEF Needs, ForTag
    <3>2. ShownTold'
        BY <2>1, <2>2 DEF Raises, ShownTold, InHosts
    <3> QED BY <1>1, <2>1, <2>2, <3>1, <3>2, HostsRaisesGood
  <2>3. ASSUME ~Lacks({"tags"}), NEW tag \in data["tags"], Reply("mode", [selected_tag |-> tag])
        PROVE  InOrder' /\ HostsGood'
    <3> DEFINE upd == [selected_tag |-> tag]
    <3>1. DOMAIN upd = {"selected_tag"} /\ upd["selected_tag"] = tag
        OBVIOUS
    <3>2. tag # Absent
      <4>1. data["tags"] \subseteq Tags
          BY <2>3 DEF Lacks, Typed, ChatTyped
      <4> QED BY <1>2, <2>3, <4>1
    <3> HIDE DEF upd
    <3>3. Reply("mode", upd) /\ data' = Update(upd)
        BY <2>3 DEF Reply, upd
    <3>4. Needs["tag"] = ForTag /\ Needs["mode"] = ForMode /\ ForMode = ForTag \cup {"selected_tag"}
        BY DEF Needs, ForMode
    <3>5. "stray" \notin mixed => Has(Needs["mode"])'
        BY <1>3, <2>1, <3>1, <3>2, <3>3, <3>4, HasAt, HasStays
    <3> QED BY <1>1, <2>1, <3>3, <3>5, HostsReplyGood DEF Plain
  <2> QED BY <1>6, <2>2, <2>3 DEF TagChosen
<1>7. CASE TopManual \/ TopIpsets
  <2>1. fsm = <<"hosts", "mode">> /\ Needs["mode"] = ForMode
      BY <1>7 DEF TopManual, TopIpsets, In, Needs
  <2>2. ASSUME Lacks({"selected_tag"}), Raises("top_manual", Nothing) PROVE InOrder' /\ HostsGood'
    <3>1. "stray" \in mixed
        BY <2>1, <2>2, LacksNone DEF ForMode
    <3>2. ShownTold'
        BY <2>1, <2>2 DEF Raises, ShownTold, InHosts
    <3> QED BY <1>1, <2>1, <2>2, <3>1, <3>2, HostsRaisesGood
  <2>3. ASSUME NEW to \in {"address", "source"}, Reply(to, Nothing) PROVE InOrder' /\ HostsGood'
    <3>1. Needs[to] = ForMode /\ to \in Plain /\ data' = Update(Nothing) /\ DOMAIN Nothing = {}
        BY <2>3 DEF Needs, Plain, Reply, Nothing
    <3>2. "stray" \notin mixed => Has(Needs[to])'
        BY <1>3, <2>1, <3>1, HasAt, HasStays
    <3> QED BY <1>1, <2>1, <2>3, <3>1, <3>2, HostsReplyGood
  <2> QED BY <1>7, <2>2, <2>3 DEF TopManual, TopIpsets
<1>8. ASSUME NEW source \in {"auto", "manual"}, SourceChosen(source) PROVE InOrder' /\ HostsGood'
  <2>1. fsm = <<"hosts", "source">> /\ Needs["source"] = ForMode /\ Needs["distribution"] = ForDist
        /\ ForDist = ForMode \cup {"source"}
      BY <1>8 DEF SourceChosen, In, Needs, ForDist
  <2> DEFINE upd == [source |-> source]
  <2>2. DOMAIN upd = {"source"} /\ upd["source"] = source /\ source # Absent
      BY HostsAssumption
  <2> HIDE DEF upd
  <2>3. Reply("distribution", upd) /\ data' = Update(upd)
      BY <1>8 DEF SourceChosen, Reply, upd
  <2>4. "stray" \notin mixed => Has(Needs["distribution"])'
      BY <1>3, <2>1, <2>2, <2>3, HasAt, HasStays
  <2> QED BY <1>1, <2>1, <2>3, <2>4, HostsReplyGood DEF Plain
<1>9. ASSUME NEW distribution \in {"same", "each"}, DistChosen(distribution)
      PROVE  InOrder' /\ HostsGood'
  <2>1. fsm = <<"hosts", "distribution">> /\ Needs["ipset"] = ForSet /\ Needs["distribution"] = ForDist
        /\ ForSet = ForDist \cup {"distribution"}
      BY <1>9 DEF DistChosen, In, Needs, ForSet
  <2> DEFINE upd == [distribution |-> distribution]
  <2>2. DOMAIN upd = {"distribution"} /\ upd["distribution"] = distribution /\ distribution # Absent
      BY HostsAssumption
  <2> HIDE DEF upd
  <2>3. Reply("ipset", upd) /\ data' = Update(upd)
      BY <1>9 DEF DistChosen, Reply, upd
  <2>4. "stray" \notin mixed => Has(Needs["ipset"])'
      BY <1>3, <2>1, <2>2, <2>3, HasAt, HasStays
  <2> QED BY <1>1, <2>1, <2>3, <2>4, HostsReplyGood DEF Plain
<1> QED BY <1>4, <1>5, <1>6, <1>7, <1>8, <1>9

LEMMA HostsAppliesGood ==
    ASSUME Typed, InOrder, HostsGood, overlaps' = 0, UNCHANGED deployVars, fsm[1] = "hosts",
           NEW STATE handler, NEW keys, keys \subseteq Needs[fsm[2]], NEW STATE how, NEW STATE promise,
           NEW STATE early, Applies(handler, keys, how, promise, early),
           "stray" \notin mixed => how # Same(Absent),
           "retagged" \notin mixed => promise = Pairs(how, Targets(data["selected_tag"]))
    PROVE  InOrder' /\ HostsGood'
<1>1. UNCHANGED <<borrowed, unlike, hostTag>>
    BY DEF Applies, AsShown, Unshown, hostsVars, deployVars
<1>2. CASE Lacks(keys) /\ Raises(handler, Nothing)
  <2>1. "stray" \in mixed
      BY <1>2, LacksNone
  <2>2. UNCHANGED <<fsm, data>> /\ AsShown
      BY <1>2, NothingIs DEF Raises, Typed, Applies
  <2>3. ShownTold => ShownTold'
      BY <1>1, <2>2, ShownToldStays DEF AsShown, hostsVars
  <2> QED BY <1>1, <1>2, <2>1, <2>3, HostsRaisesGood
<1>3. CASE Drop
    BY <1>1, <1>3, HostsDropGood
<1>4. CASE ApplyBegins(ApplyRun(how, promise, early))
  <2>1. PICK r : r = ApplyRun(how, promise, early)
      OBVIOUS
  <2>2. r.kind = "apply" /\ r.at = "list" /\ r.tag = data["selected_tag"] /\ r.how = how
        /\ r.promise = promise
      BY <2>1 DEF ApplyRun
  <2>3. PICK i \in Slots : runs' = [runs EXCEPT ![i] = r]
      BY <1>4, <2>1 DEF ApplyBegins
  <2>4. /\ Heard /\ UNCHANGED <<missing, mixed, shown>>
        /\ Clear \/ UNCHANGED <<fsm, data>>
      BY <1>4 DEF ApplyBegins, Heard, AsShown, hostsVars
  <2>5. fsm'[1] # "hysteria"
      BY <2>4 DEF Clear, NoState
  <2>6. ToldGood'
    <3>1. CASE Clear
        BY <1>1, <2>4, <3>1, GoodIs, ToldGoodElsewhere DEF Clear, NoState
    <3>2. CASE UNCHANGED <<fsm, data>>
        BY <1>1, <2>4, <3>2, GoodIs, ToldGoodStays
    <3> QED BY <2>4, <3>1, <3>2
  <2>7. HysRunKept(r)'
      BY <2>2 DEF HysRunKept
  <2>8. RunGood(r)'
    <3>1. r.how # Same(Absent) => HostsRunKept(r)'
        BY <2>2 DEF HostsRunKept, Same
    <3>2. r.promise = Pairs(r.how, Targets(r.tag)) => r.promise = Pairs(r.how, Targets(r.tag))'
        BY <1>1, ShownTables
    <3>3. r.promise = Pairs(r.how, Targets(r.tag)) => ShownRun(r)'
        BY <2>2, <3>2 DEF ShownRun
    <3>4. "retagged" \notin mixed => r.promise = Pairs(r.how, Targets(r.tag))
        BY <2>2
    <3> QED BY <2>2, <2>4, <3>1, <3>3, <3>4 DEF RunGood
  <2> QED BY <1>1, <2>3, <2>4, <2>5, <2>6, <2>7, <2>8, HostsPutGood
<1>5. \/ Lacks(keys) /\ Raises(handler, Nothing)
      \/ Drop
      \/ ApplyBegins(ApplyRun(how, promise, early))
    BY DEF Applies, ApplyBegins, ApplyRun
<1> QED BY <1>2, <1>3, <1>4, <1>5

LEMMA SameIs ==
    /\ \A ip, hosts : SameIp(hosts, ip) = Pairs(Same(ip), hosts)
    /\ \A ip : Same(ip) = Same(Absent) => ip = Absent
    /\ \A ips : Each(ips) # Same(Absent)
<1>1. \A ip : Same(ip).distribution = "same" /\ Same(ip).ip = ip
    BY DEF Same
<1>2. \A ips : Each(ips).distribution = "each"
    BY DEF Each
<1>3. \A ip : Same(ip) = Same(Absent) => ip = Absent
    BY <1>1
<1>4. \A ips : Each(ips) # Same(Absent)
    BY <1>1, <1>2
<1>5. \A ip, hosts : SameIp(hosts, ip) = Pairs(Same(ip), hosts)
    BY <1>1 DEF Pairs
<1> QED BY <1>3, <1>4, <1>5

LEMMA HostsConfirmsGood ==
    ASSUME Typed, InOrder, HostsGood, overlaps' = 0, UNCHANGED deployVars,
           GotAddress \/ IpSelected \/ ManualBulkConfirm \/ AutoConfirm
    PROVE  InOrder' /\ HostsGood'
<1>1. /\ Needs["address"] = ForMode /\ Needs["single"] = ForShow /\ Needs["confirm_bulk"] = ForShow
      /\ Needs["confirm_auto"] = ForShow
    BY DEF Needs
<1>2. /\ {"panel_id", "selected_tag"} \subseteq ForMode /\ {"panel_id", "selected_tag"} \subseteq ForShow
      /\ {"panel_id", "selected_tag", "set_id"} \subseteq ForShow
      /\ {"panel_id", "selected_tag", "distribution"} \subseteq ForShow
    BY DEF ForMode, ForTag, ForDist, ForSet, ForShow
<1>3. CASE GotAddress
  <2>1. fsm = <<"hosts", "address">>
        /\ Applies("got_address", {"panel_id", "selected_tag"}, Same(talk),
                   SameIp(Targets(data["selected_tag"]), talk), TRUE)
      BY <1>3 DEF GotAddress, In
  <2>2. Same(talk) # Same(Absent)
    <3>1. talk # Absent
        BY ChatAssumption DEF Typed, ChatTyped
    <3> QED BY <3>1, SameIs
  <2> QED BY <1>1, <1>2, <2>1, <2>2, SameIs, HostsAppliesGood
<1>4. CASE IpSelected
  <2>1. PICK k \in DOMAIN data["set_id"] :
           Applies("_apply_same_ip", {"panel_id", "selected_tag"}, Same(data["set_id"][k]),
                   SameIp(Targets(data["selected_tag"]), data["set_id"][k]), TRUE)
      BY <1>4 DEF IpSelected
  <2>2. fsm = <<"hosts", "single">>
      BY <1>4 DEF IpSelected, In
  <2>3. "stray" \notin mixed => Same(data["set_id"][k]) # Same(Absent)
    <3> SUFFICES ASSUME "stray" \notin mixed PROVE data["set_id"][k] # Absent
        BY SameIs
    <3>1. data["set_id"] \in IpSets
        BY <2>2 DEF HostsGood, HostsKept, HostsTold, InHosts
    <3>2. data["set_id"][k] \in Addresses
        BY <3>1 DEF Addresses
    <3> QED BY <3>2, HostsAssumption
  <2> QED BY <1>1, <1>2, <2>1, <2>2, <2>3, SameIs, HostsAppliesGood
<1>5. CASE ManualBulkConfirm
  <2>1. fsm = <<"hosts", "confirm_bulk">> /\ shown # {}
        /\ Applies("manual_bulk_confirm", {"panel_id", "selected_tag", "set_id"},
                   Each(data["set_id"]), shown, FALSE)
      BY <1>5 DEF ManualBulkConfirm, In
  <2>2. "retagged" \notin mixed => shown = Pairs(Each(data["set_id"]), Targets(data["selected_tag"]))
      BY <2>1 DEF HostsGood, Shown, ShownTold, InHosts
  <2> QED BY <1>1, <1>2, <2>1, <2>2, SameIs, HostsAppliesGood
<1>6. CASE AutoConfirm
  <2>1. fsm = <<"hosts", "confirm_auto">> /\ shown # {}
        /\ Applies("auto_confirm", {"panel_id", "selected_tag", "distribution"}, AutoHow, shown, FALSE)
    <3>1. LET each == IF data["auto_each_ips"] = Absent THEN <<>> ELSE data["auto_each_ips"]
              how  == IF data["distribution"] = "same" THEN Same(data["auto_ip"]) ELSE Each(each)
          IN  In("confirm_auto") /\ shown # {}
              /\ Applies("auto_confirm", {"panel_id", "selected_tag", "distribution"}, how, shown, FALSE)
        BY <1>6, Zenon DEF AutoConfirm
    <3> QED BY <3>1 DEF AutoHow, In
  <2>2. "stray" \notin mixed => AutoHow # Same(Absent)
      BY <2>1 DEF HostsGood, HostsKept, HostsTold, InHosts
  <2>3. "retagged" \notin mixed => shown = Pairs(AutoHow, Targets(data["selected_tag"]))
      BY <2>1 DEF HostsGood, Shown, ShownTold, InHosts
  <2> QED BY <1>1, <1>2, <2>1, <2>2, <2>3, HostsAppliesGood
<1> QED BY <1>3, <1>4, <1>5, <1>6

LEMMA HostsIpsetGood ==
    ASSUME Typed, InOrder, HostsGood, overlaps' = 0, UNCHANGED deployVars, IpsetChosen
    PROVE  InOrder' /\ HostsGood'
<1>1. fsm = <<"hosts", "ipset">> /\ UNCHANGED <<borrowed, unlike, hostTag, shown>>
    BY IpsetIs DEF AsShown, hostsVars, deployVars
<1>2. Needs["ipset"] = ForSet /\ Needs["single"] = ForShow /\ ForShow = ForSet \cup {"set_id"}
      /\ ForShow \subseteq Keys /\ "set_id" \notin ForSet /\ "distribution" \in ForSet
      /\ {"source", "distribution"} \subseteq ForSet /\ {"panel_id", "selected_tag"} \subseteq ForSet
    BY DEF Needs, ForShow, ForTag, ForMode, ForDist, ForSet, Keys
<1>3. ASSUME NEW set \in IpSets, NEW upd, upd = [set_id |-> set], data' = Update(upd)
      PROVE  /\ data'["set_id"] = set /\ set # Absent
             /\ data'["distribution"] = data["distribution"]
             /\ data'["selected_tag"] = data["selected_tag"]
             /\ "stray" \notin mixed => Has(ForShow)' /\ Has(ForSet)' /\ Has({"set_id"})'
  <2>1. DOMAIN upd = {"set_id"} /\ upd["set_id"] = set
      BY <1>3
  <2>2. set # Absent
      BY HostsAssumption
  <2>3. \A k \in Keys : data'[k] = IF k = "set_id" THEN set ELSE data[k]
      BY <1>3, <2>1 DEF Update
  <2>4. "stray" \notin mixed => Has(ForSet)
      BY <1>1, <1>2, HasAt
  <2>5. "stray" \notin mixed => \A k \in ForShow : data'[k] # Absent
      BY <1>2, <2>2, <2>3, <2>4 DEF Has, Lacks
  <2>6. "stray" \notin mixed => Has(ForShow)' /\ Has(ForSet)' /\ Has({"set_id"})'
      BY <1>2, <2>5 DEF Has, Lacks
  <2> QED BY <2>2, <2>3, <2>6 DEF Keys
<1>4. ASSUME NEW set \in IpSets, NEW upd, upd = [set_id |-> set], Raises("ipset_chosen", upd),
             Lacks({"source", "distribution"}) \/ Lacks({"panel_id", "selected_tag"})
      PROVE  InOrder' /\ HostsGood'
  <2>1. "stray" \in mixed
      BY <1>1, <1>2, <1>4, LacksNone
  <2>2. ShownTold'
      BY <1>1, <1>4 DEF Raises, ShownTold, InHosts
  <2> QED BY <1>1, <1>4, <2>1, <2>2, HostsRaisesGood
<1>5. ASSUME NEW set \in IpSets, NEW upd, upd = [set_id |-> set], Reply("single", upd)
      PROVE  InOrder' /\ HostsGood'
  <2>1. \A j \in Slots : runs'[j] = NoRun
      BY <1>5, HeardIdle DEF Reply
  <2>2. fsm' = <<"hosts", "single">> /\ data' = Update(upd) /\ UNCHANGED <<missing, mixed>>
      BY <1>1, <1>5 DEF Reply, Heard
  <2>3. HysTold' /\ Lent'
      BY <1>1, <2>2, HysToldElsewhere, LentStays DEF InOrder
  <2>4. ToldGood'
    <3>1. ShownTold'
        BY <2>2 DEF ShownTold, InHosts
    <3>2. "stray" \notin mixed => HostsTold'
        BY <1>2, <1>3, <1>5, <2>2 DEF HostsTold, InHosts
    <3> QED BY <1>1, <2>2, <3>1, <3>2, GoodIs DEF ToldGood
  <2> QED BY <2>1, <2>3, <2>4, IdleGood
<1>6. ASSUME NEW set \in IpSets, NEW upd, upd = [set_id |-> set], NEW kind \in {"preview", "search"},
             Starts(SetRun(kind, set), upd)
      PROVE  InOrder' /\ HostsGood'
  <2>1. PICK r : r = SetRun(kind, set)
      OBVIOUS
  <2>2. /\ r.kind = kind /\ r.at = "list" /\ r.tag = data["selected_tag"] /\ r.set = set
        /\ r.distribution = data["distribution"]
      BY <2>1 DEF SetRun
  <2>3. PICK i \in Slots : runs' = [runs EXCEPT ![i] = r]
      BY <1>6, <2>1 DEF Starts
  <2>4. Heard /\ data' = Update(upd) /\ UNCHANGED <<fsm, missing, mixed>>
      BY <1>6 DEF Starts, Heard
  <2>5. fsm'[1] # "hysteria" /\ HysRunKept(r)'
      BY <1>1, <2>2, <2>4 DEF HysRunKept
  <2>6. ToldGood'
    <3>1. "ipset" \in Plain
        BY DEF Plain
    <3>2. "stray" \notin mixed' => Has(Needs["ipset"])' /\ UNCHANGED missing
        BY <1>2, <1>3, <1>6, <2>4
    <3> QED BY <1>1, <2>4, <3>1, <3>2, GoodIs, ToldGoodPlain
  <2>7. RunGood(r)'
    <3>1. "stray" \notin mixed => HostsRunKept(r)'
        BY <1>1, <1>3, <1>6, <2>2, <2>4 DEF HostsRunKept, InHosts
    <3>2. ShownRun(r)'
        BY <1>3, <1>6, <2>2, <2>4 DEF ShownRun
    <3> QED BY <2>4, <3>1, <3>2 DEF RunGood
  <2> QED BY <1>1, <2>3, <2>4, <2>5, <2>6, <2>7, HostsPutGood
<1> QED BY <1>4, <1>5, <1>6, IpsetIs

LEMMA HostsBackGood ==
    ASSUME Typed, InOrder, HostsGood, overlaps' = 0, UNCHANGED deployVars, HostsBack
    PROVE  InOrder' /\ HostsGood'
<1>1. UNCHANGED <<borrowed, unlike>>
    BY DEF HostsBack, Unshown, deployVars
<1>2. CASE fsm[1] = "hosts" /\ In("panel")
    BY <1>1, <1>2, HostsDropGood DEF HostsBack
<1>3. CASE fsm[1] = "hosts" /\ ~In("panel")
  <2>1. fsm \in {"hosts"} \X DOMAIN Previous
      BY <1>3 DEF Typed, ChatTyped, Positions, NoState
  <2>2. PICK step \in DOMAIN Previous : fsm = <<"hosts", step>> /\ step # "panel"
      BY <1>3, <2>1 DEF In
  <2>3. Previous[step] \in Plain /\ Needs[Previous[step]] \subseteq Needs[step]
        /\ Needs[Previous[step]] \subseteq Keys
      BY <2>2 DEF Previous, Plain, Needs, ForTag, ForMode, ForDist, ForSet, ForShow, Keys
  <2>4. Reply(Previous[step], Nothing) /\ data' = Update(Nothing) /\ DOMAIN Nothing = {}
      BY <1>3, <2>2 DEF HostsBack, Reply, Nothing
  <2>5. PICK to : to = Previous[step]
      OBVIOUS
  <2>6. "stray" \notin mixed => Has(Needs[to])'
      BY <2>2, <2>3, <2>4, <2>5, HasAt, HasStays
  <2> QED BY <1>1, <2>2, <2>3, <2>4, <2>5, <2>6, HostsReplyGood
<1>4. CASE fsm[1] # "hosts"
  <2>1. fsm' = <<"hosts", "ipset">> /\ "stray" \in mixed' /\ mixed \subseteq mixed'
        /\ UNCHANGED missing
      BY <1>4 DEF HostsBack
  <2>2. \A j \in Slots : runs'[j] = NoRun
      BY <1>4, MeetsIdle DEF HostsBack
  <2>3. HysTold' /\ Lent'
      BY <1>1, <2>1, HysToldElsewhere, LentStays DEF InOrder
  <2>4. ToldGood'
    <3>1. "ipset" \in Plain
        BY DEF Plain
    <3> QED BY <1>1, <2>1, <3>1, GoodIs, ToldGoodPlain
  <2> QED BY <2>2, <2>3, <2>4, IdleGood
<1> QED BY <1>2, <1>3, <1>4

LEMMA RetagGood ==
    ASSUME Typed, InOrder, HostsGood, UNCHANGED deployVars, PanelRetags PROVE InOrder' /\ HostsGood'
<1>1. UNCHANGED <<fsm, data, runs, talk, missing, borrowed>> /\ "retagged" \in mixed'
      /\ mixed \subseteq mixed'
    BY DEF PanelRetags, deployVars
<1>2. HysTold' /\ Lent' /\ Alone'
    BY <1>1, HysToldStays, LentStays DEF InOrder, HysKept, Alone
<1>3. \A j \in Slots : HysRunKept(runs[j])'
  <2> SUFFICES ASSUME NEW j \in Slots PROVE HysRunKept(runs[j])'
      OBVIOUS
  <2>1. HysRunKept(runs[j])
      BY DEF InOrder, HysKept
  <2> QED BY <1>1, <2>1 DEF HysRunKept, InHysteria, Authed, AuthedIn, Excused
<1>4. HostsTold => HostsTold'
    BY <1>1, HostsToldStays
<1>5. \A j \in Slots : HostsRunKept(runs[j]) => HostsRunKept(runs[j])'
    BY <1>1 DEF HostsRunKept, InHosts, Has, Lacks
<1>6. HostsGood'
    BY <1>1, <1>4, <1>5 DEF HostsGood, HostsKept
<1> QED BY <1>2, <1>3, <1>6 DEF InOrder, HysKept

-----------------------------------------------------------------------------
(* The handlers of the hosts wizard, each the only one at work.             *)

LEMMA HostsEndsGood ==
    ASSUME Typed, InOrder, HostsGood, NEW i \in Slots, Only(i), runs' = [runs EXCEPT ![i] = NoRun],
           UNCHANGED <<borrowed, talk, mixed, hostTag>>, shown' \in {shown, {}},
           Clear \/ UNCHANGED <<fsm, data>>, "stray" \notin mixed => UNCHANGED missing,
           "retagged" \notin mixed => UNCHANGED unlike
    PROVE  InOrder' /\ HostsGood'
<1>1. \A j \in Slots : runs'[j] = NoRun
    BY DEF Typed, RunsTyped, Only
<1>2. HysTold' /\ Lent'
    BY HysToldStays, HysToldElsewhere, LentStays DEF InOrder, HysKept, Clear, NoState
<1>3. ToldGood'
  <2>1. CASE Clear
      BY <2>1, GoodIs, ToldGoodElsewhere DEF Clear, NoState
  <2>2. CASE UNCHANGED <<fsm, data>>
      BY <2>2, GoodIs, ToldGoodStays
  <2> QED BY <2>1, <2>2
<1> QED BY <1>1, <1>2, <1>3, IdleGood

LEMMA HostsMovesGood ==
    ASSUME Typed, InOrder, HostsGood, NEW i \in Slots, Only(i), NEW r, runs' = [runs EXCEPT ![i] = r],
           UNCHANGED <<borrowed, talk, mixed, hostTag, missing, unlike>>, shown' \in {shown, {}},
           Clear \/ UNCHANGED <<fsm, data>>, HysRunKept(r)', RunGood(r)'
    PROVE  InOrder' /\ HostsGood'
<1>1. HysTold' /\ Lent'
    BY HysToldStays, HysToldElsewhere, LentStays DEF InOrder, HysKept, Clear, NoState
<1>2. ToldGood'
  <2>1. CASE Clear
      BY <2>1, GoodIs, ToldGoodElsewhere DEF Clear, NoState
  <2>2. CASE UNCHANGED <<fsm, data>>
      BY <2>2, GoodIs, ToldGoodStays
  <2> QED BY <2>1, <2>2
<1> QED BY <1>1, <1>2, PutGood DEF Typed

LEMMA ApplyListsGood ==
    ASSUME Typed, InOrder, HostsGood, UNCHANGED deployVars, NEW i \in Slots, ApplyLists(i)
    PROVE  InOrder' /\ HostsGood'
<1> DEFINE r == runs[i]
<1>1. /\ r.kind = "apply" /\ r.at = "list"
      /\ DOMAIN r = {"kind", "at", "tag", "how", "early", "promise", "pairs"}
    BY DEF ApplyLists, Typed, RunsTyped, RunTyped
<1>2. Only(i) /\ RunGood(r)
    BY <1>1, AloneOnly, GoodIs DEF InOrder
<1>3. UNCHANGED <<borrowed, hostTag, unlike>> /\ shown' = {}
    BY DEF ApplyLists, Unshown, deployVars
<1>4. CASE Fails(i) /\ (Clear \/ UNCHANGED <<fsm, data>>)
    BY <1>2, <1>3, <1>4, HostsEndsGood DEF Fails, Quits, Unheard
<1>5. CASE /\ runs' = [runs EXCEPT ![i].at = "patch", ![i].pairs = Pairs(r.how, Targets(r.tag))]
           /\ Unheard /\ (Clear \/ UNCHANGED <<fsm, data>>)
  <2> DEFINE pairs == Pairs(r.how, Targets(r.tag))
  <2>1. PICK run : run = [r EXCEPT !.at = "patch", !.pairs = pairs]
      OBVIOUS
  <2>2. runs' = [runs EXCEPT ![i] = run]
      BY <1>5, <2>1 DEF Typed, RunsTyped
  <2>3. "retagged" \notin mixed => pairs = r.promise
      BY <1>1, <1>2 DEF RunGood, ShownRun
  <2> HIDE DEF pairs
  <2>4. /\ run.kind = "apply" /\ run.at = "patch" /\ run.how = r.how /\ run.pairs = pairs
        /\ run.promise = r.promise
      BY <1>1, <2>1
  <2>5. HysRunKept(run)'
      BY <2>4 DEF HysRunKept
  <2>6. RunGood(run)'
    <3>1. UNCHANGED mixed
        BY <1>5 DEF Unheard
    <3>2. "stray" \notin mixed => HostsRunKept(run)'
        BY <1>1, <1>2, <2>4 DEF RunGood, HostsRunKept, Same
    <3>3. "retagged" \notin mixed => ShownRun(run)'
        BY <2>3, <2>4 DEF ShownRun
    <3> QED BY <3>1, <3>2, <3>3 DEF RunGood
  <2> QED BY <1>2, <1>3, <1>5, <2>2, <2>5, <2>6, HostsMovesGood DEF Unheard
<1> QED BY <1>4, <1>5 DEF ApplyLists, Refused, Breaks

LEMMA ApplyPatchesGood ==
    ASSUME Typed, InOrder, HostsGood, UNCHANGED deployVars, NEW i \in Slots, ApplyPatches(i)
    PROVE  InOrder' /\ HostsGood'
<1> DEFINE r == runs[i]
<1>1. r.kind = "apply" /\ r.at = "patch"
    BY DEF ApplyPatches
<1>2. Only(i) /\ RunGood(r)
    BY <1>1, AloneOnly, GoodIs DEF InOrder
<1>3. UNCHANGED <<borrowed, hostTag, shown, fsm, data>>
    BY DEF ApplyPatches, deployVars
<1>4. "stray" \notin mixed => r.how # Same(Absent)
    BY <1>1, <1>2 DEF RunGood, HostsRunKept
<1>5. "retagged" \notin mixed => r.pairs = r.promise
    BY <1>1, <1>2 DEF RunGood, ShownRun
<1>6. CASE r.how = Same(Absent)
  <2>1. runs' = [runs EXCEPT ![i] = NoRun] /\ UNCHANGED <<talk, mixed, unlike>>
      BY <1>6 DEF ApplyPatches
  <2> QED BY <1>2, <1>3, <1>4, <1>6, <2>1, HostsEndsGood
<1>7. CASE r.how # Same(Absent)
  <2>1. /\ runs' = [runs EXCEPT ![i] = NoRun] /\ UNCHANGED <<talk, mixed, missing>>
        /\ \/ unlike' = unlike \cup (r.pairs \ r.promise) \cup (r.promise \ r.pairs)
           \/ \E ok \in SUBSET r.pairs : unlike' = unlike \cup (ok \ r.promise)
      BY <1>7 DEF ApplyPatches, Ends, Fails, Quits, Unheard
  <2>2. "retagged" \notin mixed => UNCHANGED unlike
      BY <1>5, <2>1
  <2> QED BY <1>2, <1>3, <2>1, <2>2, HostsEndsGood
<1> QED BY <1>6, <1>7

LEMMA PreviewGood ==
    ASSUME Typed, InOrder, HostsGood, UNCHANGED deployVars, NEW i \in Slots, ManualBulkPreview(i)
    PROVE  InOrder' /\ HostsGood'
<1> DEFINE r == runs[i]
<1>1. r.kind = "preview"
    BY DEF ManualBulkPreview
<1>2. Only(i) /\ RunGood(r)
    BY <1>1, AloneOnly, GoodIs DEF InOrder
<1>3. UNCHANGED <<borrowed, hostTag, unlike>>
    BY DEF ManualBulkPreview, deployVars
<1>4. CASE Quits(i) /\ UNCHANGED <<fsm, data, shown>>
    BY <1>2, <1>3, <1>4, HostsEndsGood DEF Quits, Unheard
<1>5. CASE /\ Ends(i) /\ fsm' = <<"hosts", "confirm_bulk">> /\ UNCHANGED data
           /\ shown' = Pairs(Each(r.set), Targets(r.tag))
  <2>1. \A j \in Slots : runs'[j] = NoRun
      BY <1>2, <1>5 DEF Ends, Quits, Typed, RunsTyped, Only
  <2>2. UNCHANGED <<talk, mixed, missing>>
      BY <1>5 DEF Ends, Quits, Unheard
  <2>3. HysTold' /\ Lent'
      BY <1>3, <1>5, <2>2, HysToldElsewhere, LentStays DEF InOrder
  <2>4. "retagged" \notin mixed => ShownTold'
    <3>1. "retagged" \notin mixed => r.tag = data["selected_tag"] /\ r.set = data["set_id"]
        BY <1>1, <1>2 DEF RunGood, ShownRun
    <3>2. /\ Each(data["set_id"])' = Each(data["set_id"])
          /\ Targets(data["selected_tag"])' = Targets(data["selected_tag"])
        BY <1>3, <1>5 DEF Each, Targets
    <3>3. Pairs(Each(data["set_id"]), Targets(data["selected_tag"]))'
             = Pairs(Each(data["set_id"]), Targets(data["selected_tag"]))
        BY <3>2 DEF Pairs, SameIp, Zip
    <3> QED BY <1>5, <3>1, <3>3 DEF ShownTold, InHosts
  <2>5. "stray" \notin mixed => HostsTold'
    <3>1. "stray" \notin mixed => InHosts({"ipset"}) /\ Has({"set_id"}) /\ Has(Needs[fsm[2]])
        BY <1>1, <1>2 DEF RunGood, HostsRunKept, HostsGood, HostsKept, HostsTold, InHosts
    <3>2. Needs["ipset"] = ForSet /\ Needs["confirm_bulk"] = ForSet \cup {"set_id"}
        BY DEF Needs, ForShow
    <3>3. "stray" \notin mixed => Has(Needs["confirm_bulk"])
        BY <3>1, <3>2 DEF Has, Lacks, InHosts
    <3> QED BY <1>5, <3>3 DEF HostsTold, InHosts, Has, Lacks
  <2>6. ToldGood'
      BY <1>3, <2>2, <2>4, <2>5, GoodIs DEF ToldGood
  <2> QED BY <2>1, <2>3, <2>6, IdleGood
<1> QED BY <1>4, <1>5 DEF ManualBulkPreview, Breaks, Ends, Fails

\* What is found are addresses of the set.
LEMMA AnswersAre ==
    ASSUME NEW set \in IpSets, NEW n, NEW good \in Answers(set, n)
    PROVE  good \in Seq(Addresses) /\ (good # <<>> => good[1] \in Addresses)
<1>1. PICK m \in 0..n : \E at \in [1..m -> DOMAIN set] : good = [k \in DOMAIN at |-> set[at[k]]]
    BY DEF Answers
<1>2. PICK at \in [1..m -> DOMAIN set] : good = [k \in DOMAIN at |-> set[at[k]]]
    BY <1>1
<1>3. m \in Nat
    BY <1>1
<1>4. \A k \in DOMAIN set : set[k] \in Addresses
    BY DEF Addresses
<1>5. good \in [1..m -> Addresses]
    BY <1>2, <1>4
<1>6. good \in Seq(Addresses) /\ Len(good) = m
    BY <1>3, <1>5
<1> QED BY <1>3, <1>5, <1>6

LEMMA SearchListsGood ==
    ASSUME Typed, InOrder, HostsGood, UNCHANGED deployVars, NEW i \in Slots, SearchLists(i)
    PROVE  InOrder' /\ HostsGood'
<1> DEFINE r == runs[i]
           targets == Targets(r.tag)
<1>1. /\ r.kind = "search" /\ r.at = "list"
      /\ DOMAIN r = {"kind", "at", "tag", "set", "distribution", "targets"}
    BY DEF SearchLists, Typed, RunsTyped, RunTyped
<1>2. Only(i) /\ RunGood(r)
    BY <1>1, AloneOnly, GoodIs DEF InOrder
<1>3. UNCHANGED <<borrowed, hostTag, shown, unlike>>
    BY DEF SearchLists, AsShown, hostsVars, deployVars
<1>4. CASE Quits(i) /\ UNCHANGED <<fsm, data>>
    BY <1>2, <1>3, <1>4, HostsEndsGood DEF Quits, Unheard
<1>5. CASE /\ runs' = [runs EXCEPT ![i].at = "find", ![i].targets = targets]
           /\ Unheard /\ UNCHANGED <<fsm, data>>
  <2>1. PICK run : run = [r EXCEPT !.at = "find", !.targets = targets]
      OBVIOUS
  <2>2. runs' = [runs EXCEPT ![i] = run]
      BY <1>5, <2>1 DEF Typed, RunsTyped
  <2> HIDE DEF targets
  <2>3. /\ run.kind = "search" /\ run.at = "find" /\ run.tag = r.tag /\ run.set = r.set
        /\ run.distribution = r.distribution /\ run.targets = targets
      BY <1>1, <2>1
  <2>4. UNCHANGED <<fsm, data, mixed, talk, missing>>
      BY <1>5 DEF Unheard
  <2>5. HysRunKept(run)'
      BY <2>3 DEF HysRunKept
  <2>6. RunGood(run)'
    <3>1. "stray" \notin mixed => HostsRunKept(run)'
        BY <1>1, <1>2, <2>3, <2>4 DEF RunGood, HostsRunKept, InHosts, Has, Lacks
    <3>2. Targets(run.tag)' = targets
        BY <1>3, <2>3 DEF Targets, targets
    <3>3. "retagged" \notin mixed => ShownRun(run)'
        BY <1>1, <1>2, <2>3, <2>4, <3>2 DEF RunGood, ShownRun
    <3> QED BY <2>4, <3>1, <3>3 DEF RunGood
  <2> QED BY <1>2, <1>3, <2>2, <2>4, <2>5, <2>6, HostsMovesGood
<1> QED BY <1>4, <1>5 DEF SearchLists, Breaks, Ends, Fails

LEMMA SearchEndsGood ==
    ASSUME Typed, InOrder, HostsGood, UNCHANGED deployVars, NEW i \in Slots, SearchEnds(i)
    PROVE  InOrder' /\ HostsGood'
<1> DEFINE r == runs[i]
           same == r.distribution = "same"
<1>1. r.kind = "search" /\ r.at = "find" /\ r.set \in IpSets
    BY DEF SearchEnds, Typed, RunsTyped, RunTyped
<1>2. Only(i) /\ RunGood(r)
    BY <1>1, AloneOnly, GoodIs DEF InOrder
<1>3. UNCHANGED <<borrowed, hostTag, unlike>> /\ Ends(i)
    BY DEF SearchEnds, deployVars
<1>4. UNCHANGED <<talk, mixed, missing>> /\ runs' = [runs EXCEPT ![i] = NoRun]
    BY <1>3 DEF Ends, Quits, Unheard
<1>5. CASE UNCHANGED <<fsm, data, shown>>
    BY <1>2, <1>3, <1>4, <1>5, HostsEndsGood
<1>6. ASSUME NEW good \in Answers(r.set, IF same THEN 1 ELSE Len(r.targets)), good # <<>>,
             NEW upd, upd = IF same THEN [auto_ip |-> good[1]] ELSE [auto_each_ips |-> good],
             fsm' = <<"hosts", "confirm_auto">>, data' = Update(upd),
             shown' = Pairs(IF same THEN Same(good[1]) ELSE Each(good), r.targets)
      PROVE  InOrder' /\ HostsGood'
  <2>1. good # Absent /\ good[1] # Absent
    <3>1. good \in Seq(Addresses) /\ good[1] \in Addresses
        BY <1>1, <1>6, AnswersAre
    <3> QED BY <3>1, HostsAssumption
  <2>2. /\ DOMAIN upd = IF same THEN {"auto_ip"} ELSE {"auto_each_ips"}
        /\ same => upd["auto_ip"] = good[1]
        /\ ~same => upd["auto_each_ips"] = good
      BY <1>6
  <2>3. \A k \in Keys : data'[k] = IF k \in DOMAIN upd THEN upd[k] ELSE data[k]
      BY <1>6 DEF Update
  <2>4. /\ data'["distribution"] = data["distribution"] /\ data'["selected_tag"] = data["selected_tag"]
        /\ same => data'["auto_ip"] = good[1]
        /\ ~same => data'["auto_each_ips"] = good
      BY <2>2, <2>3 DEF Keys
  <2>5. data["distribution"] = r.distribution =>
           AutoHow' = IF same THEN Same(good[1]) ELSE Each(good)
    <3>1. AutoHow' = IF data'["distribution"] = "same" THEN Same(data'["auto_ip"])
                     ELSE Each(IF data'["auto_each_ips"] = Absent THEN <<>> ELSE data'["auto_each_ips"])
        BY DEF AutoHow, Same, Each
    <3> QED BY <2>1, <2>4, <3>1
  <2>6. \A j \in Slots : runs'[j] = NoRun
      BY <1>2, <1>4 DEF Typed, RunsTyped, Only
  <2>7. HysTold' /\ Lent'
      BY <1>3, <1>4, <1>6, HysToldElsewhere, LentStays DEF InOrder
  <2>8. "retagged" \notin mixed => ShownTold'
    <3> SUFFICES ASSUME "retagged" \notin mixed PROVE ShownTold'
        OBVIOUS
    <3>1. /\ r.distribution = data["distribution"] /\ r.tag = data["selected_tag"]
          /\ r.targets = Targets(r.tag)
        BY <1>1, <1>2 DEF RunGood, ShownRun
    <3>2. Targets(data["selected_tag"])' = r.targets
        BY <1>3, <2>4, <3>1 DEF Targets
    <3>3. \A how, hosts : Pairs(how, hosts)' = Pairs(how, hosts)
        BY DEF Pairs, SameIp, Zip
    <3>4. shown' = Pairs(AutoHow', Targets(data["selected_tag"])')
        BY <1>6, <2>5, <3>1, <3>2
    <3> QED BY <1>6, <3>4 DEF ShownTold, InHosts, Pairs, SameIp, Zip
  <2>9. "stray" \notin mixed => HostsTold'
    <3> SUFFICES ASSUME "stray" \notin mixed PROVE HostsTold'
        OBVIOUS
    <3>1. /\ InHosts({"ipset"}) /\ Has({"set_id"}) /\ Has(Needs[fsm[2]])
          /\ r.distribution = data["distribution"]
        BY <1>1, <1>2 DEF RunGood, HostsRunKept, HostsGood, HostsKept, HostsTold, InHosts
    <3>2. Needs["ipset"] = ForSet /\ Needs["confirm_auto"] = ForSet \cup {"set_id"}
          /\ ForSet \cup {"set_id"} \subseteq Keys
          /\ {"auto_ip", "auto_each_ips"} \cap (ForSet \cup {"set_id"}) = {}
        BY DEF Needs, ForShow, ForSet, ForDist, ForMode, ForTag, Keys
    <3>3. \A k \in ForSet \cup {"set_id"} : data[k] # Absent
        BY <3>1, <3>2 DEF Has, Lacks, InHosts
    <3>4. \A k \in ForSet \cup {"set_id"} : data'[k] # Absent
        BY <2>2, <2>3, <3>2, <3>3
    <3>5. AutoHow' # Same(Absent)
        BY <2>1, <2>5, <3>1, SameIs
    <3> QED BY <1>6, <3>2, <3>4, <3>5 DEF HostsTold, InHosts, Has, Lacks, Same
  <2>10. ToldGood'
      BY <1>3, <1>4, <2>8, <2>9, GoodIs DEF ToldGood
  <2> QED BY <2>6, <2>7, <2>10, IdleGood
<1>7. \E good \in Answers(r.set, IF same THEN 1 ELSE Len(r.targets)) :
         IF good = <<>> THEN UNCHANGED <<fsm, data, shown>>
         ELSE /\ fsm' = <<"hosts", "confirm_auto">>
              /\ data' = Update(IF same THEN [auto_ip |-> good[1]] ELSE [auto_each_ips |-> good])
              /\ shown' = Pairs(IF same THEN Same(good[1]) ELSE Each(good), r.targets)
    BY DEF SearchEnds
<1> QED BY <1>5, <1>6, <1>7

LEMMA ChatGood ==
    ASSUME Typed, InOrder, HostsGood, overlaps' = 0, UNCHANGED <<deployVars, hostsVars>>, ChatNext
    PROVE  InOrder' /\ HostsGood'
<1>1. UNCHANGED <<borrowed, hostTag, shown, unlike>>
    BY DEF deployVars, hostsVars
<1>2. CASE StartHandler
    BY <1>1, <1>2, HostsDropGood DEF StartHandler
<1>3. ASSUME NEW i \in Slots, LookupEnds(i) PROVE InOrder' /\ HostsGood'
  <2> DEFINE r == runs[i]
             upd == r.upd
  <2>1. r.kind = "lookup" /\ LookupTyped(r)
      BY <1>3 DEF LookupEnds, Typed, RunsTyped, RunTyped
  <2>2. Only(i) /\ HysRunKept(r)
      BY <2>1, AloneOnly DEF InOrder, HysKept
  <2>3. CASE Breaks(i)
      BY <1>1, <2>2, <2>3, HostsEndsGood DEF Breaks, Fails, Quits, Unheard
  <2>4. CASE Ends(i) /\ fsm' = r.to /\ data' = Update(upd)
    <3>1. UNCHANGED <<talk, mixed, missing>> /\ runs' = [runs EXCEPT ![i] = NoRun]
        BY <2>4 DEF Ends, Quits, Unheard
    <3>2. \A j \in Slots : runs'[j] = NoRun
        BY <2>2, <3>1 DEF Typed, RunsTyped, Only
    <3>3. Lent'
        BY <1>1, <3>1, LentStays DEF InOrder
    <3>4. \A k \in Keys : data'[k] = IF k \in DOMAIN upd THEN upd[k] ELSE data[k]
        BY <2>4 DEF Update
    <3>5. ASSUME r.to[1] = "hysteria", HysTold' PROVE InOrder' /\ HostsGood'
      <4>1. ToldGood'
          BY <1>1, <2>4, <3>1, <3>5, GoodIs, ToldGoodElsewhere
      <4> QED BY <3>2, <3>3, <3>5, <4>1, IdleGood
    <3>6. ASSUME r.to = <<"hysteria", "zone">>, NEW p \in Profiles, upd = [profile |-> p] PROVE HysTold'
      <4>1. fsm' = <<"hysteria", "zone">> /\ InHysteria({"profile"})
          BY <2>1, <2>2, <2>4, <3>6 DEF HysRunKept
      <4>2. DOMAIN upd = {"profile"} /\ upd["profile"] = p /\ p # Absent
          BY <3>6, DeployAssumption
      <4>3. \A k \in Keys : data'[k] = IF k = "profile" THEN p ELSE data[k]
          BY <3>4, <4>2
      <4> QED BY <3>1, <4>1, <4>2, <4>3
              DEF InOrder, HysKept, HysTold, InHysteria, Later, Authed, AuthedIn, Keys
    <3>7. ASSUME r.to = <<"hysteria", "subdomain">>, upd = [zone |-> upd.zone], upd.zone \in Nat
          PROVE  HysTold'
      <4>1. fsm' = <<"hysteria", "subdomain">> /\ InHysteria({"zone", "manual"})
          BY <2>1, <2>2, <2>4, <3>7 DEF HysRunKept
      <4>2. DOMAIN upd = {"zone"} /\ upd["zone"] \in Nat /\ Absent \notin Nat
          BY <3>7, ChatAssumption
      <4>3. \A k \in Keys : data'[k] = IF k = "zone" THEN upd["zone"] ELSE data[k]
          BY <3>4, <4>2
      <4> HIDE DEF upd
      <4> QED BY <3>1, <4>1, <4>2, <4>3
              DEF InOrder, HysKept, HysTold, InHysteria, Later, Authed, AuthedIn, Keys
    <3>8. ASSUME r.to = <<"hosts", "tag">>, NEW p \in Panels, NEW T \in SUBSET Tags,
                 upd = [panel_id |-> p, tags |-> T]
          PROVE  InOrder' /\ HostsGood'
      <4>1. DOMAIN upd = {"panel_id", "tags"} /\ upd["panel_id"] = p /\ upd["tags"] = T
          BY <3>8
      <4>2. p # Absent /\ T # Absent
          BY ChatAssumption, HostsAssumption
      <4>3. data'["panel_id"] = p /\ data'["tags"] = T
          BY <3>4, <4>1 DEF Keys
      <4>4. Has(Needs["tag"])'
          BY <4>2, <4>3 DEF Has, Lacks, Needs, ForTag
      <4>5. ToldGood'
          BY <1>1, <2>4, <3>1, <3>8, <4>4, GoodIs, ToldGoodPlain DEF Plain
      <4>6. HysTold'
          BY <2>4, <3>8, HysToldElsewhere
      <4> QED BY <3>2, <3>3, <4>5, <4>6, IdleGood
    <3>9. CASE r.to = <<"hysteria", "zone">> /\ \E p \in Profiles : upd = [profile |-> p]
        BY <3>5, <3>6, <3>9
    <3>10. CASE r.to = <<"hysteria", "subdomain">> /\ upd = [zone |-> upd.zone] /\ upd.zone \in Nat
        BY <3>5, <3>7, <3>10
    <3>11. CASE r.to = <<"hosts", "tag">>
                /\ \E p \in Panels : \E T \in SUBSET Tags : upd = [panel_id |-> p, tags |-> T]
        BY <3>8, <3>11
    <3> QED BY <2>1, <3>9, <3>10, <3>11 DEF LookupTyped
  <2> QED BY <1>3, <2>3, <2>4 DEF LookupEnds
<1> QED BY <1>2, <1>3 DEF ChatNext

LEMMA HostsGoodNext ==
    ASSUME Typed, InOrder, HostsGood, overlaps' = 0, UNCHANGED deployVars, HostsNext
    PROVE  InOrder' /\ HostsGood'
<1>1. CASE HostsStep
    BY <1>1, HostsAnswersGood, HostsConfirmsGood, HostsIpsetGood, HostsBackGood DEF HostsStep
<1>2. ASSUME NEW i \in Slots, HostsRun(i) PROVE InOrder' /\ HostsGood'
    BY <1>2, ApplyListsGood, ApplyPatchesGood, PreviewGood, SearchListsGood, SearchEndsGood DEF HostsRun
<1> QED BY <1>1, <1>2, RetagGood DEF HostsNext

-----------------------------------------------------------------------------
(* One handler at a time, from the first step on.                           *)

LEMMA WholeInit == Init => Whole
<1> SUFFICES ASSUME Init PROVE InOrder /\ HostsGood
    BY DEF Whole
<1>1. fsm = NoState /\ missing = {} /\ unlike = {} /\ borrowed = {} /\ \A i \in Slots : runs[i] = NoRun
    BY DEF Init, ChatInit, DeployInit, HostsInit
<1>2. HysRunKept(NoRun) /\ HostsRunKept(NoRun) /\ ShownRun(NoRun)
    BY DEF HysRunKept, HostsRunKept, ShownRun, NoRun
<1>3. HysTold /\ HostsTold /\ ShownTold
    BY <1>1 DEF HysTold, HostsTold, ShownTold, InHysteria, InHosts, NoState
<1>4. Alone /\ Lent
    BY <1>1 DEF Alone, Lent
<1> QED BY <1>1, <1>2, <1>3, <1>4 DEF InOrder, HysKept, HostsGood, HostsKept, Shown

\* Acting while a handler is at work is counted, and the count never goes back.
Counted == overlaps' = overlaps \/ overlaps' = overlaps + 1

LEMMA PartsCount ==
    /\ Heard \/ Unheard \/ Drop => Counted
    /\ \A to, upd : Reply(to, upd) \/ Raises(to, upd) \/ Starts(to, upd) => Counted
    /\ \A i \in Slots : Quits(i) \/ EndsClearing(i) \/ Refused(i) \/ Breaks(i) => Counted
    /\ \A i \in Slots : \A at : GoesOn(i, at) => Counted
<1>1. Heard \/ Unheard \/ Drop => Counted
    BY DEF Heard, Meets, Unheard, Drop, Counted
<1>2. \A to, upd : Reply(to, upd) \/ Raises(to, upd) \/ Starts(to, upd) => Heard
    BY DEF Reply, Raises, Starts
<1>3. \A i \in Slots : Quits(i) \/ EndsClearing(i) \/ Refused(i) \/ Breaks(i) => Unheard
    BY DEF EndsClearing, Refused, Breaks, Ends, Fails, Quits
<1>4. \A i \in Slots : \A at : GoesOn(i, at) => Unheard
    BY DEF GoesOn
<1> QED BY <1>1, <1>2, <1>3, <1>4

LEMMA DeployCounts == DeployNext => Counted
<1>1. \A upd : RunDeployment(upd) \/ HysDeployNode(upd) => Counted
    BY PartsCount, Zenon DEF RunDeployment, HysDeployNode
<1>2. \A w, upd : AfterBecome(w, upd) => Counted
    BY <1>1, PartsCount DEF AfterBecome
<1>3. \A w, upd : AfterAuth(w, upd) => Counted
    BY <1>2, PartsCount DEF AfterAuth
<1>4. ASSUME NEW w PROVE SendsKey(w) \/ SendsPassword(w) \/ SendsPassphrase(w) \/ GivesLogin(w) => Counted
    BY <1>3, PartsCount, Zenon DEF SendsKey, SendsPassword, SendsPassphrase, GivesLogin
<1>5. \A w, x : BecomesWith(w, x) \/ ChoosesPanel(w, x) => Counted
    BY <1>2, PartsCount, Zenon DEF BecomesWith, ChoosesPanel
<1>6. \A w : Enters(w) => Counted
    BY DEF Enters, Meets, Counted
<1>7. StableStep => Counted
    BY <1>1, <1>4, <1>5, <1>6, PartsCount, Zenon
       DEF StableStep, PresetRemnanodeStable, PanelChosen, GotIp, GotLogin, AuthGotKeyFile,
           AuthGotPassword, AuthGotPassphrase, RnBecomeNopass, RnBecomeSamePass, RnBecomeGotPass,
           GotSecretKey, GotPort, ConfigProfileChosen
<1>8. HysteriaStep => Counted
    BY <1>4, <1>5, <1>6, PartsCount, SubdomainIs, Zenon
       DEF HysteriaStep, PresetHysteriaTls, HysPanelChosen, HysGotIp, HysGotLogin, HysAuthGotKeyFile,
           HysAuthGotPassword, HysAuthGotPassphrase, HysBecomeNopass, HysBecomeSamePass,
           HysBecomeGotPass, HysProfileChosen, HysZoneSelected, HysManualZoneStart, HysGotManualZone,
           HysGotSubdomain
<1>9. ASSUME NEW i \in Slots, DeployRun(i) PROVE Counted
  <2>1. InstallPlaybooks(i) \/ InstallProfiles(i) \/ RegisterEnds(i) => Counted
      BY PartsCount, Zenon DEF InstallPlaybooks, InstallProfiles, RegisterEnds, Ends
  <2>2. HysInstallPlaybook(i) \/ HysInstallProfiles(i) => Counted
      BY PartsCount, Zenon DEF HysInstallPlaybook, HysInstallProfiles, Ends
  <2>3. PipelineDnsGet(i) \/ PipelineDnsPut(i) \/ PipelineProfile(i) \/ PipelineNode(i) => Counted
      BY PartsCount, Zenon DEF PipelineDnsGet, PipelineDnsPut, PipelineProfile, PipelineNode
  <2>4. PipelineCert(i) => Counted
      BY PartsCount, Zenon DEF PipelineCert, Counted
  <2> QED BY <1>9, <2>1, <2>2, <2>3, <2>4 DEF DeployRun
<1> QED BY <1>7, <1>8, <1>9, PartsCount DEF DeployNext, CancelDeploy

LEMMA HostsCount == HostsNext => Counted
<1>1. \A handler, keys, how, promise, early : Applies(handler, keys, how, promise, early) => Counted
    BY PartsCount, Zenon DEF Applies
<1>2. \A w : Enters(w) => Counted
    BY DEF Enters, Meets, Counted
<1>3. HostsMenu \/ HostsPanelChosen \/ TagChosen \/ TopManual \/ TopIpsets => Counted
    BY <1>2, PartsCount, Zenon DEF HostsMenu, HostsPanelChosen, TagChosen, TopManual, TopIpsets
<1>4. \A x : SourceChosen(x) \/ DistChosen(x) => Counted
    BY PartsCount, Zenon DEF SourceChosen, DistChosen
<1>5. IpsetChosen => Counted
    BY PartsCount, IpsetIs
<1>6. GotAddress \/ IpSelected \/ ManualBulkConfirm \/ AutoConfirm => Counted
    BY <1>1, Zenon DEF GotAddress, IpSelected, ManualBulkConfirm, AutoConfirm
<1>7. HostsBack => Counted
  <2>1. Meets => Counted
      BY DEF Meets, Counted
  <2> QED BY <2>1, PartsCount, Zenon DEF HostsBack
<1>8. PanelRetags => Counted
    BY DEF PanelRetags, Counted
<1>9. ASSUME NEW i \in Slots, HostsRun(i) PROVE Counted
  <2>1. ApplyLists(i) => Counted
      BY PartsCount, Zenon DEF ApplyLists, Fails
  <2>2. ApplyPatches(i) => Counted
      BY PartsCount, Zenon DEF ApplyPatches, Ends, Fails, Counted
  <2>3. ManualBulkPreview(i) \/ SearchLists(i) \/ SearchEnds(i) => Counted
      BY PartsCount, Zenon DEF ManualBulkPreview, SearchLists, SearchEnds, Ends
  <2> QED BY <1>9, <2>1, <2>2, <2>3 DEF HostsRun
<1> QED BY <1>3, <1>4, <1>5, <1>6, <1>7, <1>8, <1>9 DEF HostsNext, HostsStep

LEMMA OverlapsGrow == ASSUME Typed, [Next]_vars, overlaps' = 0 PROVE overlaps = 0
<1>1. ChatNext => Counted
    BY PartsCount, Zenon DEF ChatNext, StartHandler, LookupEnds, Ends
<1>2. UNCHANGED vars => Counted
    BY DEF vars, chatVars, Counted
<1>3. Counted
    BY <1>1, <1>2, DeployCounts, HostsCount DEF Next
<1> QED BY <1>3 DEF Counted, Typed, ChatTyped

LEMMA WholeNext == Typed /\ Whole /\ [Next]_vars => Whole'
<1> SUFFICES ASSUME Typed, Whole, [Next]_vars, overlaps' = 0 PROVE InOrder' /\ HostsGood'
    BY DEF Whole
<1>1. InOrder /\ HostsGood
    BY OverlapsGrow DEF Whole
<1>2. CASE DeployNext /\ UNCHANGED hostsVars
    BY <1>1, <1>2, DeployCalm, AwayGood DEF Calm
<1>3. CASE HostsNext /\ UNCHANGED deployVars
    BY <1>1, <1>3, HostsGoodNext
<1>4. CASE ChatNext /\ UNCHANGED <<deployVars, hostsVars>>
    BY <1>1, <1>4, ChatGood
<1>5. CASE UNCHANGED vars
  <2>1. UNCHANGED <<fsm, data, runs, talk, mixed, missing>> /\ UNCHANGED borrowed /\ UNCHANGED hostsVars
      BY <1>5 DEF vars, chatVars, deployVars
  <2>2. UNCHANGED <<hostTag, shown, unlike>>
      BY <2>1 DEF hostsVars
  <2>3. Alone' /\ HysTold' /\ Lent' /\ ToldGood'
      BY <1>1, <2>1, <2>2, HysToldStays, LentStays, GoodIs, ToldGoodStays DEF InOrder, HysKept, Alone
  <2>4. ASSUME NEW j \in Slots PROVE HysRunKept(runs[j])' /\ RunGood(runs[j])'
    <3>1. HysRunKept(runs[j]) /\ RunGood(runs[j])
        BY <1>1, GoodIs DEF InOrder, HysKept
    <3>2. HysRunKept(runs[j])'
        BY <2>1, <3>1 DEF HysRunKept, InHysteria, Authed, AuthedIn, Excused
    <3>3. HostsRunKept(runs[j]) => HostsRunKept(runs[j])'
        BY <2>1 DEF HostsRunKept, InHosts, Has, Lacks
    <3>4. ShownRun(runs[j]) => ShownRun(runs[j])'
      <4>1. Targets(runs[j].tag)' = Targets(runs[j].tag)
          BY <2>1, <2>2 DEF Targets
      <4>2. Pairs(runs[j].how, Targets(runs[j].tag))' = Pairs(runs[j].how, Targets(runs[j].tag))
          BY <2>1, <4>1 DEF Pairs, SameIp, Zip
      <4> QED BY <2>1, <4>1, <4>2 DEF ShownRun
    <3> QED BY <2>1, <3>1, <3>2, <3>3, <3>4 DEF RunGood
  <2> QED BY <2>3, <2>4 DEF InOrder, HysKept, HostsGood, HostsKept, Shown, ToldGood, RunGood
<1> QED BY <1>2, <1>3, <1>4, <1>5 DEF Next

LEMMA WholeAlways == Spec => [](Typed /\ Whole)
<1>1. Init => Typed /\ Whole
    BY TypedInit, WholeInit
<1>2. Typed /\ Whole /\ [Next]_vars => (Typed /\ Whole)'
    BY TypedNext, WholeNext
<1> QED BY <1>1, <1>2, PTL DEF Spec

\* Unless the user answers while a handler is at work, nothing typed for one server is sent to
\* another, but the sudo password of an abandoned wizard: every key that a login sends was
\* stored by the dialogue the server was typed in, and the pipeline of a hysteria node reads
\* the data that its own dialogue left.
THEOREM CredentialsKept == Spec => []CredentialsStay
<1>1. Typed /\ Whole => CredentialsStay
  <2> SUFFICES ASSUME Typed, Whole, overlaps = 0, NEW b \in borrowed
               PROVE  b[2] = "become_pass" /\ "leftover" \in mixed
      BY DEF CredentialsStay, Typed, ChatTyped
  <2>1. b[2] \in Excused
      BY DEF Whole, InOrder, Lent
  <2> QED BY <2>1 DEF Excused
<1> QED BY <1>1, WholeAlways, PTL

\* No handler raises KeyError on the FSM data while one handler works at a time and no old
\* hosts message is answered from another wizard: a step of the hosts wizard has stored all
\* that it and the steps after it read, going back included, and so has a hysteria dialogue
\* until its pipeline starts.
THEOREM MissingForCause == Spec => []MissingOnlyIfMixed
<1>1. Typed /\ Whole => MissingOnlyIfMixed
    BY DEF MissingOnlyIfMixed, Typed, ChatTyped, Whole, HostsGood, HostsKept
<1> QED BY <1>1, WholeAlways, PTL

\* What is written to the panel's hosts is what the newest preview showed, although the hosts
\* are listed again when it is applied: the choice the chat holds gives the addresses shown,
\* for the hosts that carry the tag, unless a tag changed or two handlers share the chat.
THEOREM HostsAsShown == Spec => []HostsGetWhatWasShown
<1>1. Typed /\ Whole => HostsGetWhatWasShown
    BY DEF HostsGetWhatWasShown, Typed, ChatTyped, Whole, HostsGood, Shown
<1> QED BY <1>1, WholeAlways, PTL
=============================================================================

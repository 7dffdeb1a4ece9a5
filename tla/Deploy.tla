------------------------------- MODULE Deploy -------------------------------
(***************************************************************************)
(* The two deployment presets of handlers/deploy.py: their dialogues, and  *)
(* what the runs they start leave on servers, at Cloudflare and on the     *)
(* panel.  Server <<n, k>> is the k-th address typed in dialogue n.        *)
(*                                                                         *)
(* Every remote call may succeed, be refused with the error the code       *)
(* catches, or raise another one (aiohttp's, a timeout), which ends the    *)
(* handler where it stands.  The playbooks of one deployment run in        *)
(* parallel on different servers and are one step; so is reading and       *)
(* writing back the profile, whose only content here is the certificate    *)
(* path that the write replaces.                                           *)
(***************************************************************************)
EXTENDS Chat, FiniteSets

CONSTANTS
    Profiles,  \* config profiles of the panels, all with hysteria inbounds
    Domains,   \* domains a user may ask a certificate for
    Servers    \* servers that may be typed: <<dialogue, number>>

ASSUME DeployAssumption ==
    /\ Servers \subseteq (Nat \X Nat)
    /\ \A p \in Plans : \A k \in DOMAIN p.wizards : p.wizards[k] = "hysteria" => <<k, 1>> \in Servers
    /\ Nil \notin Domains
    /\ Absent \notin Profiles \cup Servers /\ \A S \in SUBSET Servers : S # Absent

VARIABLES
    installed,  \* the secret key that the node on a server runs with, if any
    dns,        \* the A records of a domain, in the order Cloudflare lists them
    certs,      \* <<server, domain>>: a certificate issued on the server
    certPath,   \* the domain in the certificate path of a profile's inbounds
    nodes,      \* the nodes registered on the panel
    pipelines,  \* history: hysteria pipelines that were begun
    borrowed    \* history: <<server, key>>: a credential of another dialogue
                \* was sent to the server

deployVars == <<installed, dns, certs, certPath, nodes, pipelines, borrowed>>
remote == <<installed, dns, certs, certPath, nodes, pipelines>>

DeployInit ==
    /\ installed = [s \in Servers |-> Nil]
    /\ certs = {} /\ nodes = {} /\ pipelines = {} /\ borrowed = {}
    /\ dns = [d \in Domains |-> <<>>] /\ certPath = [p \in Profiles |-> Nil]

Presets == {"remnanode", "hysteria"}

At(wizard, step) == fsm = <<wizard, step>>

StillHere == UNCHANGED deployVars

-----------------------------------------------------------------------------
(* Credentials.                                                             *)

\* What _write_inventory puts into the inventory: the key, or else the password.
Login(d) == IF d["auth_method"] = "key" THEN "key_data" ELSE "password"

\* Fault: the password goes along with the key.
CredentialsBoth(d) == {"key_data", "password", "become_pass"}

\* Fault: so does the node's secret.
CredentialsSecret(d) == {Login(d), "become_pass", "secret_key"}

Credentials(d) == {Login(d), "become_pass"}


\* Those of them that were not typed for this server.
Foreign(server, d) == {k \in Credentials(d) : d[k] \notin {Absent, Nil, server[1]}}

\* run_playbook: what is sent to the servers.
Lends(servers, d) ==
    borrowed' = borrowed \cup UNION {{s} \X Foreign(s, d) : s \in servers}

-----------------------------------------------------------------------------
(* The stable preset: runs.                                                 *)

\* _run_deployment: the playbook on every server, without a panel or with one.
RunDeployment(upd) ==
    LET d == Update(upd)
        install(panel, secret) ==
            /\ Starts([kind |-> "install", at |-> "playbook", servers |-> d["ips"],
                       panel |-> panel, secret |-> secret], upd)
            /\ Lends(d["ips"], d)
        bare  == d["panel_id"] \in {Nil, Absent}
        unset == d["login"] = Absent \/ (bare /\ d["secret_key"] = Absent)
    IN  /\ UNCHANGED remote
        /\ IF d["ips"] = Absent THEN Raises("_run_deployment", upd) /\ UNCHANGED borrowed
           ELSE \/ ~bare /\ Drop /\ UNCHANGED borrowed   \* the panel is gone
                \/ unset /\ Raises("_run_deployment", upd) /\ UNCHANGED borrowed
                \/ ~unset /\ bare /\ install(Nil, d["secret_key"])
                \/ ~unset /\ ~bare /\ install(d["panel_id"], d["panel_id"])

\* Fault: every address is kept for registering, not only the ones that succeeded.
InstallPlaybooksAll(i) ==
    /\ runs[i].kind = "install" /\ runs[i].at = "playbook"
    /\ \E ok \in SUBSET runs[i].servers :
          /\ installed' = [s \in Servers |-> IF s \in ok THEN runs[i].secret ELSE installed[s]]
          /\ IF ok = {} \/ runs[i].panel = Nil THEN EndsClearing(i) ELSE GoesOn(i, "profiles")
    /\ UNCHANGED <<dns, certs, certPath, nodes, pipelines, borrowed>>

\* gather: some of the playbooks succeed.
InstallPlaybooks(i) ==
    /\ runs[i].kind = "install" /\ runs[i].at = "playbook"
    /\ \E ok \in SUBSET runs[i].servers :
          /\ installed' = [s \in Servers |-> IF s \in ok THEN runs[i].secret ELSE installed[s]]
          /\ IF ok = {} \/ runs[i].panel = Nil THEN EndsClearing(i)
             ELSE /\ runs' = [runs EXCEPT ![i].at = "profiles", ![i].servers = ok]
                  /\ Unheard /\ UNCHANGED <<fsm, data, mishaps>>
    /\ UNCHANGED <<dns, certs, certPath, nodes, pipelines, borrowed>>

\* The profiles are loaded, and the data replaced by what registering needs; or
\* loading is refused, there are none, or it breaks.
InstallProfiles(i) ==
    /\ runs[i].kind = "install" /\ runs[i].at = "profiles" /\ StillHere
    /\ \/ Refused(i)
       \/ Breaks(i)
       \/ /\ Ends(i) /\ fsm' = <<"remnanode", "profile">>
          /\ data' = [NoData EXCEPT !["panel_id"] = runs[i].panel,
                                    !["node_addresses"] = runs[i].servers]

ConfigProfileChosen ==
    /\ At("remnanode", "profile") /\ StillHere
    /\ IF Lacks({"panel_id", "node_addresses"}) THEN Raises("config_profile_chosen", Nothing)
       ELSE \/ Drop   \* the panel is gone
            \/ \E p \in Profiles :
                  Starts([kind |-> "register", servers |-> data["node_addresses"],
                          panel |-> data["panel_id"], profile |-> p], Nothing)

\* create_node for every address: refused or not; the state is cleared after all.
RegisterEnds(i) ==
    /\ runs[i].kind = "register"
    /\ \E ok \in SUBSET runs[i].servers :
          nodes' = nodes \cup {[preset |-> "remnanode", server |-> s, domain |-> Nil,
                                panel |-> runs[i].panel, profile |-> runs[i].profile] : s \in ok}
    /\ (EndsClearing(i) \/ Breaks(i))
    /\ UNCHANGED <<installed, dns, certs, certPath, pipelines, borrowed>>

-----------------------------------------------------------------------------
(* The hysteria preset: runs.                                               *)

HysDeployNode(upd) ==
    LET d == Update(upd)
    IN  /\ UNCHANGED remote
        /\ IF d["ip"] = Absent \/ d["panel_id"] = Absent
           THEN Raises("_hys_deploy_node", upd) /\ UNCHANGED borrowed
           ELSE \/ Drop /\ UNCHANGED borrowed   \* the panel is gone
                \/ /\ d["panel_id"] # Nil /\ d["login"] = Absent
                   /\ Raises("_hys_deploy_node", upd) /\ UNCHANGED borrowed
                \/ /\ d["panel_id"] # Nil /\ d["login"] # Absent
                   /\ Starts([kind |-> "hys_install", at |-> "playbook", server |-> d["ip"],
                              panel |-> d["panel_id"]], upd)
                   /\ Lends({d["ip"]}, d)

HysInstallPlaybook(i) ==
    /\ runs[i].kind = "hys_install" /\ runs[i].at = "playbook"
    /\ \/ Refused(i) /\ StillHere
       \/ /\ GoesOn(i, "profiles")
          /\ installed' = [installed EXCEPT ![runs[i].server] = runs[i].panel]
          /\ UNCHANGED <<dns, certs, certPath, nodes, pipelines, borrowed>>

\* Fault: this preset, too, replaces the data by the panel.
HysInstallProfilesReplacing(i) ==
    /\ runs[i].kind = "hys_install" /\ runs[i].at = "profiles" /\ StillHere
    /\ \/ Refused(i)
       \/ Breaks(i)
       \/ /\ Ends(i) /\ fsm' = <<"hysteria", "profile">>
          /\ data' = [NoData EXCEPT !["panel_id"] = runs[i].panel]

\* Unlike the stable preset, this one keeps the data as it is by now.
HysInstallProfiles(i) ==
    /\ runs[i].kind = "hys_install" /\ runs[i].at = "profiles" /\ StillHere
    /\ \/ Refused(i)
       \/ Breaks(i)
       \/ Ends(i) /\ fsm' = <<"hysteria", "profile">> /\ UNCHANGED data

HysProfileChosen ==
    /\ At("hysteria", "profile") /\ StillHere
    /\ IF Lacks({"panel_id"}) THEN Raises("hys_profile_chosen", Nothing)
       ELSE \/ Drop
            \/ /\ data["panel_id"] # Nil
               /\ \E p \in Profiles :
                     Starts(Lookup(<<"hysteria", "zone">>, [profile |-> p]), Nothing)

HysZoneSelected ==
    /\ At("hysteria", "zone") /\ StillHere
    /\ Starts(Lookup(<<"hysteria", "subdomain">>, [zone |-> talk]), Nothing)

HysManualZoneStart == At("hysteria", "zone") /\ StillHere /\ Reply("manual", Nothing)

HysGotManualZone ==
    /\ At("hysteria", "manual") /\ StillHere
    /\ Starts(Lookup(<<"hysteria", "subdomain">>, [zone |-> talk]), Nothing)

\* The subdomain: the pipeline runs with what the data holds by now.
HysGotSubdomain ==
    /\ At("hysteria", "subdomain")
    /\ UNCHANGED <<installed, dns, certs, certPath, nodes, borrowed>>
    /\ IF Lacks({"zone", "ip", "panel_id", "profile"})
       THEN Raises("hys_got_subdomain", Nothing) /\ UNCHANGED pipelines
       ELSE \/ Drop /\ UNCHANGED pipelines
            \/ /\ data["panel_id"] # Nil
               /\ \E domain \in Domains :
                     LET run == [server |-> data["ip"], domain |-> domain,
                                 profile |-> data["profile"]]
                     IN  /\ Starts([kind |-> "pipeline", at |-> "dns_get", of |-> run,
                                    panel |-> data["panel_id"], login |-> data["login"],
                                    foreign |-> Foreign(data["ip"], data),
                                    found |-> FALSE], Nothing)
                         /\ pipelines' = pipelines \cup {run}

InPipeline(i, at) == runs[i].kind = "pipeline" /\ runs[i].at = at

\* get_a_record.
PipelineDnsGet(i) ==
    /\ InPipeline(i, "dns_get") /\ StillHere
    /\ \/ Refused(i) \/ Breaks(i)
       \/ /\ runs' = [runs EXCEPT ![i].at = "dns_put", ![i].found = dns[runs[i].of.domain] # <<>>]
          /\ Unheard /\ UNCHANGED <<fsm, data, mishaps>>

\* update_a_record on the record that was found, or create_a_record; a call that
\* breaks may have taken effect.
PipelineDnsPut(i) ==
    LET server == runs[i].of.server
        domain == runs[i].of.domain
        put == IF runs[i].found THEN [dns EXCEPT ![domain][1] = server]
               ELSE [dns EXCEPT ![domain] = Append(@, server)]
    IN  /\ InPipeline(i, "dns_put")
        /\ \/ Refused(i) /\ UNCHANGED dns
           \/ Breaks(i) /\ dns' \in {dns, put}
           \/ GoesOn(i, "cert") /\ dns' = put
        /\ UNCHANGED <<installed, certs, certPath, nodes, pipelines, borrowed>>

\* The certificate playbook stops the node before it starts it with the
\* certificate, and may fail before, between and after the two.
PipelineCert(i) ==
    LET server == runs[i].of.server
        issued == certs \cup {<<server, runs[i].of.domain>>}
        Leaves(c, secret) == certs' = c /\ installed' = [installed EXCEPT ![server] = secret]
    IN  /\ InPipeline(i, "cert") /\ UNCHANGED <<dns, certPath, nodes, pipelines>>
        /\ IF runs[i].login = Absent
           THEN /\ runs' = [runs EXCEPT ![i] = NoRun]
                /\ missing' = missing \cup {"hys_got_subdomain"}
                /\ UNCHANGED <<fsm, data, plan, talk, mixed, mishaps, overlaps>>
                /\ UNCHANGED <<installed, certs, borrowed>>
           ELSE /\ borrowed' = borrowed \cup ({server} \X runs[i].foreign)
                /\ \/ Refused(i) /\ Leaves(certs, installed[server])
                   \/ Refused(i) /\ Leaves(issued, installed[server])
                   \/ Refused(i) /\ Leaves(issued, Nil)
                   \/ GoesOn(i, "profile") /\ Leaves(issued, runs[i].panel)

\* Fault: a refused update of the profile is passed over.
PipelineProfileAnyway(i) ==
    /\ InPipeline(i, "profile") /\ GoesOn(i, "node")
    /\ certPath' \in {certPath, [certPath EXCEPT ![runs[i].of.profile] = runs[i].of.domain]}
    /\ UNCHANGED <<installed, dns, certs, nodes, pipelines, borrowed>>

\* _inject_cert_paths, between get_config_profile and update_config_profile.
PipelineProfile(i) ==
    LET injected == [certPath EXCEPT ![runs[i].of.profile] = runs[i].of.domain]
    IN  /\ InPipeline(i, "profile")
        /\ \/ Refused(i) /\ UNCHANGED certPath
           \/ Breaks(i) /\ certPath' \in {certPath, injected}
           \/ GoesOn(i, "node") /\ certPath' = injected
        /\ UNCHANGED <<installed, dns, certs, nodes, pipelines, borrowed>>

\* create_node.
PipelineNode(i) ==
    LET r == runs[i].of
        created == nodes \cup {[preset |-> "hysteria", server |-> r.server, domain |-> r.domain,
                                panel |-> runs[i].panel, profile |-> r.profile]}
    IN  /\ InPipeline(i, "node")
        /\ \/ EndsClearing(i) /\ nodes' = created
           \/ Refused(i) /\ UNCHANGED nodes
           \/ Breaks(i) /\ nodes' \in {nodes, created}
        /\ UNCHANGED <<installed, dns, certs, certPath, pipelines, borrowed>>

-----------------------------------------------------------------------------
(* The dialogues.                                                           *)

\* _after_become_remnanode: without a panel, the secret key is asked for.
AfterBecome(wizard, upd) ==
    IF wizard = "hysteria" THEN HysDeployNode(upd)
    ELSE IF data["panel_id"] \in {Nil, Absent} THEN Reply("secret", upd) /\ StillHere
    ELSE RunDeployment(upd)

\* A login other than root is asked for sudo first.
AfterAuth(wizard, upd) ==
    IF data["login"] = Root THEN AfterBecome(wizard, upd)
    ELSE Reply("become", upd) /\ StillHere

ChoosesPanel(wizard, choices) ==
    At(wizard, "panel") /\ StillHere /\ \E p \in choices : Reply("ip", [panel_id |-> p])

GivesLogin(wizard) ==
    /\ At(wizard, "login") /\ StillHere
    /\ \E login \in {Root, talk} : Reply("auth", [login |-> login])

\* A key that needs a passphrase waits for it.
SendsKey(wizard) ==
    /\ At(wizard, "auth")
    /\ \/ Reply("passphrase", [auth_method |-> "key", key_data |-> talk]) /\ StillHere
       \/ AfterAuth(wizard, [auth_method |-> "key", key_data |-> talk])

SendsPassword(wizard) ==
    At(wizard, "auth") /\ AfterAuth(wizard, [auth_method |-> "password", password |-> talk])

SendsPassphrase(wizard) ==
    /\ At(wizard, "passphrase")
    /\ IF Lacks({"key_data"}) THEN Raises("passphrase", Nothing) /\ StillHere
       ELSE AfterAuth(wizard, Nothing)

BecomesWith(wizard, secret) ==
    At(wizard, "become") /\ AfterBecome(wizard, [become_pass |-> secret])

\* "The same password": whatever is stored under "password".
SamePassword == IF data["password"] = Absent THEN Nil ELSE data["password"]

PresetRemnanodeStable == Enters("remnanode") /\ StillHere
PanelChosen      == ChoosesPanel("remnanode", Panels \cup {Nil})
GotIp            == At("remnanode", "ip") /\ StillHere
                    /\ Reply("login", [ips |-> {s \in Servers : s[1] = talk}])
GotLogin         == GivesLogin("remnanode")
AuthGotKeyFile   == SendsKey("remnanode")
AuthGotPassword  == SendsPassword("remnanode")
AuthGotPassphrase == SendsPassphrase("remnanode")
RnBecomeNopass   == BecomesWith("remnanode", Nil)
RnBecomeSamePass == BecomesWith("remnanode", SamePassword)
RnBecomeGotPass  == BecomesWith("remnanode", talk)
GotSecretKey     == At("remnanode", "secret") /\ StillHere /\ Reply("port", [secret_key |-> talk])
GotPort          == At("remnanode", "port") /\ RunDeployment(Nothing)

PresetHysteriaTls == Enters("hysteria") /\ StillHere
HysPanelChosen    == ChoosesPanel("hysteria", Panels)
HysGotIp          == At("hysteria", "ip") /\ StillHere /\ Reply("login", [ip |-> <<talk, 1>>])
HysGotLogin       == GivesLogin("hysteria")
HysAuthGotKeyFile == SendsKey("hysteria")
HysAuthGotPassword == SendsPassword("hysteria")
HysAuthGotPassphrase == SendsPassphrase("hysteria")
HysBecomeNopass   == BecomesWith("hysteria", Nil)
HysBecomeSamePass == BecomesWith("hysteria", SamePassword)
HysBecomeGotPass  == BecomesWith("hysteria", talk)

CancelDeploy == fsm[1] \in Presets /\ Drop /\ StillHere

StableStep ==
    \/ PresetRemnanodeStable \/ PanelChosen \/ GotIp \/ GotLogin
    \/ AuthGotKeyFile \/ AuthGotPassword \/ AuthGotPassphrase
    \/ RnBecomeNopass \/ RnBecomeSamePass \/ RnBecomeGotPass
    \/ GotSecretKey \/ GotPort \/ ConfigProfileChosen

HysteriaStep ==
    \/ PresetHysteriaTls \/ HysPanelChosen \/ HysGotIp \/ HysGotLogin
    \/ HysAuthGotKeyFile \/ HysAuthGotPassword \/ HysAuthGotPassphrase
    \/ HysBecomeNopass \/ HysBecomeSamePass \/ HysBecomeGotPass
    \/ HysProfileChosen \/ HysZoneSelected \/ HysManualZoneStart \/ HysGotManualZone
    \/ HysGotSubdomain

DeployRun(i) ==
    \/ InstallPlaybooks(i) \/ InstallProfiles(i) \/ RegisterEnds(i)
    \/ HysInstallPlaybook(i) \/ HysInstallProfiles(i)
    \/ PipelineDnsGet(i) \/ PipelineDnsPut(i) \/ PipelineCert(i)
    \/ PipelineProfile(i) \/ PipelineNode(i)

DeployNext == StableStep \/ HysteriaStep \/ CancelDeploy \/ \E i \in Slots : DeployRun(i)
=============================================================================

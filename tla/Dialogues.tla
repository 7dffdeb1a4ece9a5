----------------------------- MODULE Dialogues ------------------------------
(***************************************************************************)
(* The wizards of deploy.py and hosts_fsm.py composed over the one chat    *)
(* they share: a user enters them one after the other, leaves them half    *)
(* done, and answers one while a handler of another is still at work.      *)
(*                                                                         *)
(* The properties say what one dialogue may rely on although the FSM data  *)
(* is shared, and which disorder it takes to break that: acting while a    *)
(* handler is at work (overlaps), data left by an abandoned wizard         *)
(* ("leftover"), the back button of an old hosts message ("stray"), a tag  *)
(* changed on the panel meanwhile ("retagged").                            *)
(***************************************************************************)
EXTENDS Deploy, Hosts

vars == <<chatVars, deployVars, hostsVars>>

Init == ChatInit /\ DeployInit /\ HostsInit

ChatNext == StartHandler \/ \E i \in Slots : LookupEnds(i)

Next ==
    \/ DeployNext /\ UNCHANGED hostsVars
    \/ HostsNext /\ UNCHANGED deployVars
    \/ ChatNext /\ UNCHANGED <<deployVars, hostsVars>>

Spec == Init /\ [][Next]_vars

-----------------------------------------------------------------------------
\* Every variable has its type; a node on a server holds the secret of a panel
\* or the one that was typed, and the FSM state is a step of some wizard.
TypeOK ==
    /\ ChatTypeOK
    /\ DOMAIN installed = Servers /\ DOMAIN dns = Domains /\ DOMAIN certPath = Profiles
    /\ certs \subseteq Servers \X Domains
    /\ pipelines \subseteq [server : Servers, domain : Domains, profile : Profiles]
    /\ borrowed \subseteq Servers \X {"key_data", "password", "become_pass"}
    /\ \A n \in nodes : n.server \in Servers /\ n.profile \in Profiles
    /\ DOMAIN hostTag = Hosts /\ retags \in Nat

\* A node that the stable preset registers on a panel runs on its server with
\* that panel's secret key: registering works on the addresses that the FSM data
\* holds by then, through cancelled, overlapping and failing deployments, and
\* these are only ever the addresses whose playbook succeeded.
StableRegistersInstalled ==
    \A n \in nodes : n.preset = "remnanode" => installed[n.server] = n.panel

\* Another pipeline of the same profile, or of the same domain, than the node's.
OtherPipelines(n) == pipelines \ {[server |-> n.server, domain |-> n.domain,
                                   profile |-> n.profile]}

\* The inbounds of a profile name a certificate that exists on some server.
PathIsCertified == \A p \in Profiles : certPath[p] # Nil => \E c \in certs : c[2] = certPath[p]

\* The profile of the node names the node's domain, or one that another pipeline
\* of the profile put over it.
ProfileServes(n) ==
    \/ certPath[n.profile] = n.domain
    \/ \E q \in OtherPipelines(n) : q.profile = n.profile /\ q.domain = certPath[n.profile]

\* The domain leads to the node's server unless another pipeline took it over.
DomainLeads(n) ==
    \/ \E k \in DOMAIN dns[n.domain] : dns[n.domain][k] = n.server
    \/ \E q \in OtherPipelines(n) : q.domain = n.domain

\* Whatever fails, breaks or runs beside it, a hysteria node is on the panel only
\* with all it needs: its server has the certificate of its domain, its profile
\* points at it and its domain at the server.  What the node does not survive is
\* another pipeline with its profile or its domain, which silently takes over the
\* one certificate path or the A record.
HysteriaNodeServed ==
    /\ PathIsCertified
    /\ \A n \in nodes : n.preset = "hysteria" =>
          <<n.server, n.domain>> \in certs /\ ProfileServes(n) /\ DomainLeads(n)

\* Credentials stay in the dialogue they were typed in: unless the user answers
\* while a handler is at work, nothing typed for one server is sent to another
\* but the sudo password of an abandoned wizard, which a login as root leaves in
\* the FSM data.
CredentialsStay ==
    overlaps > 0 \/ \A b \in borrowed : b[2] = "become_pass" /\ "leftover" \in mixed

\* A handler finds every key it reads without a default: KeyError takes a second
\* handler that clears or replaces the data, or a back button of another wizard.
MissingOnlyIfMixed == missing # {} => overlaps > 0 \/ "stray" \in mixed

\* The hosts that are patched, and their addresses, are those of the preview the
\* user confirmed (or those with the chosen tag), although they are listed
\* again: unless a tag changed meanwhile or two handlers share the chat.
HostsGetWhatWasShown == overlaps > 0 \/ "retagged" \in mixed \/ unlike = {}
=============================================================================

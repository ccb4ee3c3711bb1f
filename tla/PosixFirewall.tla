---------------------------- MODULE PosixFirewall ----------------------------
(***************************************************************************)
(* The killswitch on Linux (daemon/posix/posix_firewall.cpp): two chains   *)
(* per family of addresses, installed when the daemon starts, and a jump   *)
(* to each in OUTPUT.  ApplyFirewallSettings is a series of shell          *)
(* commands; the daemon may be killed between any two of them, and the     *)
(* rules stay as they are until the next start or a reboot.                *)
(*                                                                         *)
(* Nothing else changes these chains, and every command that can succeed   *)
(* does: the code ignores exit statuses, except that of iptables -L.  The  *)
(* pf anchors of macOS are left out: loading or flushing one is idempotent.*)
(***************************************************************************)
EXTENDS Naturals, Sequences, SequencesExt

CONSTANT MaxStops  \* bound: how often the daemon is killed or the machine restarts

ASSUME StopsAssumption == MaxStops \in Nat

Families == {"v4", "v6"}
Anchors == {"exemptLAN", "killswitch"}

VARIABLES
    chain,   \* family -> anchor -> its rules are "none", "partial" or "full"
    output,  \* family -> the jumps in OUTPUT, in order
    todo,    \* the commands that are still to be run
    running, \* the daemon has started
    engaged, \* what the last ApplyFirewallSettings asked for
    stops

posixVars == <<chain, output, todo, running, engaged, stops>>

PosixTypeOK ==
    /\ chain \in [Families -> [Anchors -> {"none", "partial", "full"}]]
    /\ output \in [Families -> Seq(Anchors)]
    /\ running \in BOOLEAN /\ engaged \in BOOLEAN
    /\ stops \in 0..MaxStops

Command(do, f, a) == [do |-> do, family |-> f, anchor |-> a]

-----------------------------------------------------------------------------
\* --new-chain and -F leave an anchor without rules, and the last -A completes it.
InstallAnchor(f, a) == <<Command("clear", f, a), Command("fill", f, a)>>

\* firewall_install: exemptions first, the killswitch last
FirewallInstall ==
    InstallAnchor("v4", "exemptLAN") \o InstallAnchor("v6", "exemptLAN")
        \o InstallAnchor("v4", "killswitch") \o InstallAnchor("v6", "killswitch")

\* firewall_enable_anchor, firewall_disable_anchor
ForBoth(do, a) == <<Command(do, "v4", a), Command(do, "v6", a)>>

Jumps(f, a) == \E i \in DOMAIN output[f] : output[f][i] = a

\* Mutant: one family is enough.
EnabledSomewhere(a) == \E f \in Families : Jumps(f, a)

\* firewall_anchor_enabled
AnchorEnabled(a) == \A f \in Families : Jumps(f, a)

\* The call of firewall_set_anchor_enabled; what it finds is looked at in its turn.
SetAnchorEnabled(a, enable) == <<Command(IF enable THEN "enable" ELSE "disable", "both", a)>>

\* PosixCypherDaemon::ApplyFirewallSettings
AppliedSettings(on, lan) ==
    SetAnchorEnabled("exemptLAN", on /\ lan) \o SetAnchorEnabled("killswitch", on)

-----------------------------------------------------------------------------
PosixInit ==
    /\ chain = [f \in Families |-> [a \in Anchors |-> "none"]]
    /\ output = [f \in Families |-> <<>>]
    /\ todo = FirewallInstall
    /\ running = TRUE
    /\ engaged = FALSE
    /\ stops = 0

\* firewall_set_anchor_enabled
Looks(c) ==
    /\ c.do \in {"enable", "disable"}
    /\ LET enable == c.do = "enable"
           change == IF enable = AnchorEnabled(c.anchor) THEN <<>>
                     ELSE ForBoth(IF enable THEN "append" ELSE "delete", c.anchor)
       IN  todo' = change \o Tail(todo)
    /\ UNCHANGED <<chain, output>>

\* A command of firewall_install.
Installs(c) ==
    /\ c.do \in {"clear", "fill"}
    /\ chain' = [chain EXCEPT ![c.family][c.anchor] = IF c.do = "fill" THEN "full" ELSE "partial"]
    /\ todo' = Tail(todo)
    /\ UNCHANGED output

\* iptables -A OUTPUT -j, or -D, which removes the first of several.
Moves(c) ==
    /\ c.do \in {"append", "delete"}
    /\ output' = [output EXCEPT ![c.family] =
                     IF c.do = "append" THEN Append(@, c.anchor) ELSE RemoveFirst(@, c.anchor)]
    /\ todo' = Tail(todo)
    /\ UNCHANGED chain

RunsCommand ==
    /\ running /\ todo # <<>>
    /\ Looks(Head(todo)) \/ Installs(Head(todo)) \/ Moves(Head(todo))
    /\ UNCHANGED <<running, engaged, stops>>

\* A notification, or a client that comes or goes, makes the daemon apply its settings.
Applies ==
    /\ running /\ todo = <<>>
    /\ \E on, lan \in BOOLEAN :
          /\ engaged' = on
          /\ todo' = AppliedSettings(on, lan)
    /\ UNCHANGED <<chain, output, running, stops>>

\* The daemon is killed, or ends, which removes nothing (OnAfterRun).
DaemonStops ==
    /\ running /\ stops < MaxStops
    /\ running' = FALSE
    /\ engaged' = FALSE
    /\ todo' = <<>>
    /\ stops' = stops + 1
    /\ UNCHANGED <<chain, output>>

\* A reboot: iptables forgets everything.
MachineRestarts ==
    /\ ~running
    /\ chain' = [f \in Families |-> [a \in Anchors |-> "none"]]
    /\ output' = [f \in Families |-> <<>>]
    /\ UNCHANGED <<todo, running, engaged, stops>>

\* OnBeforeRun
DaemonStarts ==
    /\ ~running
    /\ running' = TRUE
    /\ todo' = FirewallInstall
    /\ UNCHANGED <<chain, output, engaged, stops>>

PosixNext == RunsCommand \/ Applies \/ DaemonStops \/ MachineRestarts \/ DaemonStarts

PosixSpec == PosixInit /\ [][PosixNext]_posixVars

-----------------------------------------------------------------------------
(* Properties.                                                             *)

Rejecting(f) == Jumps(f, "killswitch") /\ chain[f]["killswitch"] = "full"

\* When ApplyFirewallSettings returns, a killswitch that is wanted rejects the traffic of
\* both families, whatever an earlier daemon was killed in the middle of; and when none
\* was ever killed, nothing is left of a killswitch that is not wanted
\* (firewall_set_anchor_enabled, firewall_install).
AppliedInFull ==
    running /\ todo = <<>> =>
        /\ engaged => \A f \in Families : Rejecting(f)
        /\ ~engaged /\ stops = 0 => \A f \in Families : output[f] = <<>>

\* Applying the settings anew opens no gap in a killswitch that stays wanted: what was
\* appended stays, also while the exemption for the LAN changes.
NoGap ==
    running /\ engaged /\ running' /\ engaged' =>
        \A f \in Families : Rejecting(f) => Rejecting(f)'

\* A killswitch that is wanted becomes complete and stays so until it is not wanted or
\* the daemon is killed (PosixCypherDaemon::ApplyFirewallSettings). At first the settings
\* are yet to be applied.
KillswitchHolds == [][NoGap /\ AppliedInFull']_posixVars
=============================================================================

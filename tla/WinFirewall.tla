----------------------------- MODULE WinFirewall -----------------------------
(***************************************************************************)
(* The killswitch on Windows (WinCypherDaemon, daemon/win/win_service.cpp, *)
(* and the engine of win_firewall.cpp): persistent filters in the engine,  *)
(* the keys of those that the daemon knows of in _filters and              *)
(* _tap_filters, and one transaction for each ApplyFirewallSettings, which *)
(* adds what is missing or, after any exception, removes everything.       *)
(*                                                                         *)
(* Filters that belong together are one: a step in between looks like one  *)
(* of its neighbours.  Adding a filter may fail; removing one fails when   *)
(* it is not in the engine.  Opening the engine and committing succeed.    *)
(***************************************************************************)
EXTENDS Sequences, FiniteSets, SequencesExt

CONSTANT Adapters  \* the TAP adapters that may be installed

\* TURN_ON comes last for these, in this order.
Permits == <<"allow_client", "allow_daemon", "allow_openvpn", "allow_cypherpunk_dns",
             "allow_localhost", "allow_dhcp">>
Always == Append(Permits, "block")

\* FilterIndexes
Indexes == <<"allow_lan", "block_dns">> \o Always
Names == ToSet(Indexes)

ASSUME AdaptersAssumption == IsFiniteSet(Adapters) /\ Adapters \cap Names = {}

\* The filter that permits the traffic of an adapter goes by the adapter's name.
Filters == Names \cup Adapters

VARIABLES
    engine,   \* the filters in the engine that this daemon added
    orphans,  \* those that an earlier one left there and nobody knows of
    known,    \* the filters that _filters has a key of
    tracked,  \* the adapters that _tap_filters has a key for
    adapters, \* win_get_tap_adapters
    firewall, \* g_settings.firewall() is not "off"
    last,     \* how the last ApplyFirewallSettings ended: "on", "off" or "failed"
    failure   \* a failure was posted and is not handled yet

winVars == <<engine, orphans, known, tracked, adapters, firewall, last, failure>>

WinTypeOK ==
    /\ engine \subseteq Filters /\ orphans \subseteq Filters
    /\ known \subseteq Names
    /\ tracked \subseteq Adapters /\ adapters \subseteq Adapters
    /\ firewall \in BOOLEAN /\ failure \in BOOLEAN
    /\ last \in {"on", "off", "failed"}

-----------------------------------------------------------------------------
(* A call at work: the transaction's view of the engine, the daemon's      *)
(* keys, the counters success and error, and whether it has thrown.        *)

Begin == [engine |-> engine, known |-> known, tracked |-> tracked,
          success |-> FALSE, error |-> FALSE, thrown |-> FALSE]

Throw(w) == [w EXCEPT !.thrown = TRUE, !.error = TRUE]

\* TURN_ON
TurnOn(w, n, broken) ==
    IF n \in w.known THEN w
    ELSE IF n = broken THEN Throw(w)
    ELSE [w EXCEPT !.engine = @ \cup {n}, !.known = @ \cup {n}, !.success = TRUE]

\* TURN_OFF, which catches what RemoveFilter throws.
TurnOff(w, n) ==
    IF n \notin w.known THEN w
    ELSE IF n \notin w.engine THEN [w EXCEPT !.error = TRUE]
    ELSE [w EXCEPT !.engine = @ \ {n}, !.known = @ \ {n}, !.success = TRUE]

\* A new adapter gets a filter of its own.
AddTap(w, a, broken) ==
    IF a \in w.tracked THEN w
    ELSE IF a = broken THEN Throw(w)
    ELSE [w EXCEPT !.engine = @ \cup {a}, !.tracked = @ \cup {a}, !.success = TRUE]

\* The filter of an adapter that is gone is removed; its key stays in _tap_filters.
RemoveTap(w, a) ==
    IF a \notin w.engine THEN Throw(w)
    ELSE [w EXCEPT !.engine = @ \ {a}, !.success = TRUE]

Do(w, do, what, broken) ==
    IF w.thrown THEN w
    ELSE CASE do = "on" -> TurnOn(w, what, broken)
           [] do = "off" -> TurnOff(w, what)
           [] do = "add" -> AddTap(w, what, broken)
           [] do = "remove" -> RemoveTap(w, what)

\* A loop over filters, or calls for one after the other.
DoEach(w, do, list, broken) ==
    LET after[i \in 0..Len(list)] == IF i = 0 THEN w ELSE Do(after[i - 1], do, list[i], broken)
    IN  after[Len(list)]

\* The try block: allowLAN, overrideDNS, the adapters that are new or gone, and the rest.
Enabled(lan, dns, here, gone, broken) ==
    LET lanDone == Do(Begin, IF lan THEN "on" ELSE "off", "allow_lan", broken)
        dnsDone == Do(lanDone, IF dns THEN "on" ELSE "off", "block_dns", broken)
        added == DoEach(dnsDone, "add", here, broken)
        removed == DoEach(added, "remove", gone, broken)
    IN  DoEach(removed, "on", Always, broken)

\* "Firewall is either off, or there was an error applying rules": everything goes, and
\* the missing filters of adapters count as errors.
RemoveAll(w) ==
    LET bare == [w EXCEPT !.engine = @ \ w.tracked, !.tracked = {}, !.thrown = FALSE,
                          !.error = @ \/ ~(w.tracked \subseteq w.engine)]
    IN  DoEach(bare, "off", Reverse(Indexes), "none")

\* Mutant: an error aborts the transaction.
AbortedByError(w) ==
    /\ engine' = IF w.success /\ ~w.error THEN w.engine ELSE engine
    /\ known' = w.known
    /\ tracked' = w.tracked

\* Commit if anything was done, otherwise the destructor aborts.
Finish(w) ==
    /\ engine' = IF w.success THEN w.engine ELSE engine
    /\ known' = w.known
    /\ tracked' = w.tracked

-----------------------------------------------------------------------------
WinInit ==
    /\ engine = {} /\ orphans = {} /\ known = {} /\ tracked = {}
    /\ adapters \in SUBSET Adapters \ {{}}
    /\ firewall \in BOOLEAN
    /\ last = "off" /\ failure = FALSE

\* ApplyFirewallSettings with the killswitch wanted; at most one filter is broken, and the
\* adapters come in any order.
TurnsOn(lan, dns, here, gone, broken) ==
    LET w == Enabled(lan, dns, here, gone, broken) IN
    /\ firewall
    /\ Finish(IF w.thrown THEN RemoveAll(w) ELSE w)
    /\ last' = IF w.thrown THEN "failed" ELSE "on"
    /\ failure' = (failure \/ w.thrown)

\* ApplyFirewallSettings without a client, or as the settings say.
TurnsOff ==
    /\ Finish(RemoveAll(Begin))
    /\ last' = "off"
    /\ failure' = (failure \/ RemoveAll(Begin).error)

ApplyFirewall ==
    /\ \/ TurnsOff
       \/ \E lan, dns \in BOOLEAN, broken \in Filters \cup {"none"} :
          \E here \in SetToSeqs(adapters), gone \in SetToSeqs(tracked \ adapters) :
            TurnsOn(lan, dns, here, gone, broken)
    /\ UNCHANGED <<orphans, adapters, firewall>>

\* What ApplyFirewallSettings posts: the clients are told and the setting becomes "off".
FailureHandled ==
    /\ failure
    /\ failure' = FALSE
    /\ firewall' = FALSE
    /\ UNCHANGED <<engine, orphans, known, tracked, adapters, last>>

SettingChanges ==
    /\ firewall' = ~firewall
    /\ UNCHANGED <<engine, orphans, known, tracked, adapters, last, failure>>

\* An adapter is installed, removed or disabled; its filter stays in the engine.
AdapterChanges ==
    /\ \E a \in Adapters : adapters' = IF a \in adapters THEN adapters \ {a} ELSE adapters \cup {a}
    /\ UNCHANGED <<engine, orphans, known, tracked, firewall, last, failure>>

\* The service stops or crashes, and is started again.  Run wipes the filters of the
\* earlier session, or fails to; without an adapter it does not start.
ServiceRestarts ==
    /\ adapters # {}
    /\ orphans' \in {{}, orphans \cup engine}
    /\ engine' = {} /\ known' = {} /\ tracked' = {}
    /\ last' = "off" /\ failure' = FALSE
    /\ UNCHANGED <<adapters, firewall>>

WinNext ==
    \/ ApplyFirewall \/ FailureHandled \/ SettingChanges
    \/ AdapterChanges \/ ServiceRestarts

WinSpec == WinInit /\ [][WinNext]_winVars

-----------------------------------------------------------------------------
(* Properties.                                                             *)

\* Traffic is not blocked without what must be let through.
Whole(filters) == "block" \in filters => ToSet(Permits) \subseteq filters

\* The transaction leaves the engine with the whole killswitch or with none of it, as
\* asked and after any failure, whatever adapters come and go; so do the filters that an
\* earlier session left behind; and the daemon's keys are those of filters that are there,
\* but for adapters that are gone (WinCypherDaemon::ApplyFirewallSettings).
AllOrNothing ==
    /\ IF last = "on" THEN "block" \in engine ELSE engine = {}
    /\ Whole(engine) /\ Whole(orphans)
    /\ known = engine \cap Names
    /\ engine \cap Adapters \subseteq tracked
=============================================================================

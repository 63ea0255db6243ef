------------------------------- MODULE AdminPage -------------------------------
(***************************************************************************)
(* The administrator's dashboard: four parts (Dashboard with its           *)
(* candidates, VotingControlCard, the list and the switch of               *)
(* EmailDomainsCard).  A behaviour follows one of them.  They share nothing*)
(* but, two of them, the row of settings and its cached copy: there a save *)
(* of the other part is a SettingsElsewhere that writes what the followed  *)
(* columns hold already, and deletes the copy.                             *)
(***************************************************************************)
EXTENDS RosterCard, DomainsCard, SettingsCards

VARIABLE card   \* the part that is followed

vars == <<card, listVars, rosterVars, domainsVars, settingsVars>>

Cards == {"candidates", "domains", "control", "mode"}

SettingsOf == CASE card = "control" -> Control
                [] card = "mode" -> Switch
                [] OTHER -> {}

Init ==
    /\ card \in Cards
    /\ ListInit /\ RosterInit /\ DomainsInit /\ SettingsInit
    /\ \A f \in Fields \ SettingsOf : settings[f] = Defaults[f]

Candidates ==
    card = "candidates" /\ RosterNext /\ UNCHANGED <<card, domainsVars, settingsVars>>

Domains ==
    card = "domains" /\ DomainsNext /\ UNCHANGED <<card, rosterVars, settingsVars>>

VotingSettings ==
    /\ card \in {"control", "mode"} /\ SettingsNext(SettingsOf)
    /\ UNCHANGED <<card, listVars, rosterVars, domainsVars>>

Next == Candidates \/ Domains \/ VotingSettings

Spec == Init /\ [][Next]_vars

-----------------------------------------------------------------------------
(* Properties. *)

\* Types of all parts, with what their busy marks say about the calls under way.
TypeOK ==
    CASE card = "candidates" -> RosterTypeOK
      [] card = "domains"    -> DomainsTypeOK
      [] card \in {"control", "mode"} -> SettingsTypeOK

\* When nothing is under way the switch shows the mode, unless the status failed to load,
\* came from a cached copy that a straddling fill or a lost deletion had left behind, or
\* was read before a click took effect and came after it, the answer to a click was
\* lost, or the mode was changed elsewhere or late (EmailDomainsCard reads the mode once).
SwitchShowsMode ==
    card = "mode" /\ loadCall = None /\ saveCall = None /\ copy.only # settings.only => "only" \in doubtful

=============================================================================

--------------------------- MODULE MCSafe_proofs ---------------------------
(***************************************************************************)
(* BoardSide_proofs and FleetSide_proofs put together in the specification *)
(* that is checked as a whole: a step of it is a step of one of its parts, *)
(* and the others stutter.                                                 *)
(***************************************************************************)
EXTENDS MCSafe, BoardSide_proofs, FleetSide_proofs

-----------------------------------------------------------------------------
(* The parts together *)

\* What a step is to each of the parts.
PartsStep ==
  /\ [PairingNext]_pVars
  /\ [PeerNext]_cVars
  /\ [ForwarderNext]_lVars
  /\ [ServicesNext]_wsVars
  /\ [AlertsNext]_aVars
  /\ [ScreensNext]_sVars
  /\ [KeepingNext]_keepVars
  /\ [ImportNext]_iVars

\* A step of the parts is a step of one of them, and the others stutter.
LEMMA SafeSteps == [SafeNext]_safeVars => PartsStep
<1>1. UNCHANGED <<pVars, cVars, lVars, wsVars, aVars, sVars, keepVars, iVars>> => PartsStep
  BY DEF PartsStep
<1>2. ASSUME PairingNext, UNCHANGED <<cVars, lVars, wsVars, aVars, sVars, keepVars, iVars>> PROVE PartsStep
  BY <1>2 DEF PartsStep
<1>3. ASSUME PeerNext, UNCHANGED <<pVars, lVars, wsVars, aVars, sVars, keepVars, iVars>> PROVE PartsStep
  BY <1>3 DEF PartsStep
<1>4. ASSUME ForwarderNext, UNCHANGED <<pVars, cVars, wsVars, aVars, sVars, keepVars, iVars>> PROVE PartsStep
  BY <1>4 DEF PartsStep
<1>5. ASSUME ServicesNext, UNCHANGED <<pVars, cVars, lVars, aVars, sVars, keepVars, iVars>> PROVE PartsStep
  BY <1>5 DEF PartsStep
<1>6. ASSUME AlertsNext, UNCHANGED <<pVars, cVars, lVars, wsVars, sVars, keepVars, iVars>> PROVE PartsStep
  BY <1>6 DEF PartsStep
<1>7. ASSUME ScreensNext, UNCHANGED <<pVars, cVars, lVars, wsVars, aVars, keepVars, iVars>> PROVE PartsStep
  BY <1>7 DEF PartsStep
<1>8. ASSUME KeepingNext, UNCHANGED <<pVars, cVars, lVars, wsVars, aVars, sVars, iVars>> PROVE PartsStep
  BY <1>8 DEF PartsStep
<1>9. ASSUME ImportNext, UNCHANGED <<pVars, cVars, lVars, wsVars, aVars, sVars, keepVars>> PROVE PartsStep
  BY <1>9 DEF PartsStep
<1>10. UNCHANGED safeVars => UNCHANGED <<pVars, cVars, lVars, wsVars, aVars, sVars, keepVars, iVars>>
  BY DEF safeVars
<1> QED BY <1>1, <1>2, <1>3, <1>4, <1>5, <1>6, <1>7, <1>8, <1>9, <1>10 DEF SafeNext

LEMMA SafeStarts == SafeInit => PairingInit /\ PeerInit /\ ForwarderInit /\ ServicesInit /\ AlertsInit /\ ScreensInit /\ KeepingInit /\ ImportInit
  BY DEF SafeInit

LEMMA SafeSpecs ==
  SafeSpec =>
    /\ PairingInit /\ [][PairingNext]_pVars
    /\ PeerInit /\ [][PeerNext]_cVars
    /\ ForwarderInit /\ [][ForwarderNext]_lVars
    /\ ServicesInit /\ [][ServicesNext]_wsVars
    /\ AlertsInit /\ [][AlertsNext]_aVars
    /\ ScreensInit /\ [][ScreensNext]_sVars
    /\ KeepingInit /\ [][KeepingNext]_keepVars
    /\ ImportInit /\ [][ImportNext]_iVars
<1>1. [SafeNext]_safeVars => [PairingNext]_pVars /\ [PeerNext]_cVars /\ [ForwarderNext]_lVars /\ [ServicesNext]_wsVars /\ [AlertsNext]_aVars /\ [ScreensNext]_sVars /\ [KeepingNext]_keepVars /\ [ImportNext]_iVars
  BY SafeSteps DEF PartsStep
<1> QED BY <1>1, SafeStarts, PTL DEF SafeSpec

\* Of boards: what is recorded beside them names the one that serves.  Of phones: codes work once and are guessed at
\* within bounds, what a phone may do over a connection ends with its row, and the forwarder keeps its limits and gives
\* back what it took.  Of the watcher: it tells of each thing once, and resumes what ended by itself (cli/board.go,
\* sidecar/sidecar.go, board/phone.go, board/peer.go, hand-iroh's forward.rs, cli/watch.go).
THEOREM ServicesSafely == SafeSpec => []ServicesSafe
<1>1. ServicesInv /\ PairingInv /\ PeerInv /\ ForwarderInv /\ AlertsInv => ServicesSafe
  BY ServicesImplies, PairingImplies, PeerImplies, ForwarderImplies, AlertsImplies DEF ServicesSafe
<1> QED BY <1>1, SafeSpecs, ServicesStarts, ServicesStep, PairingStarts, PairingStep, PeerStarts,
   PeerStep,
   ForwarderStarts, ForwarderStep, AlertsStarts, AlertsStep, PTL

\* A phone's row that was answered for has its cookie, and one that was revoked everywhere is left in no fleet it
\* was revoked in (board/roster.go, redeem and revoke).
THEOREM PhonesKept == SafeSpec => PhoneRows
<1>1. PairingInv /\ [PairingNext]_pVars => [RowHeld]_pVars /\ [PhoneRevoked]_pVars
  BY RowHeldStep, PhoneRevokedNow
<1>2. PairingInit /\ [][PairingNext]_pVars => [][RowHeld]_pVars /\ [][PhoneRevoked]_pVars
  BY <1>1, PairingStarts, PairingStep, PTL
<1>3. PhoneRows <=> [][RowHeld]_pVars /\ [][PhoneRevoked]_pVars
  BY DEF PhoneRows, RowsHeld, RevokedEverywhere, RowHeld, PhoneRevoked
<1> QED BY <1>2, <1>3, SafeSpecs, PTL

\* Imports at once, one after the other and killed: a task comes in once, of its repository and with its reference,
\* and a marker names a fleet that has the import (cli/fleet_import.go, state/fleet_import.go).
THEOREM ImportsSafely == SafeSpec => []ImportsSafe
<1>1. ImportInv => ImportsSafe
  BY ImportInvSafe DEF ImportsSafe
<1> QED BY <1>1, SafeSpecs, ImportStarts, ImportInvStep, PTL

\* No import, whatever else goes on in the fleets, changes a note that is complete (cli/fleet_import.go, copyImportFile).
THEOREM NotesStay == SafeSpec => NotesKept
<1>1. ImportInit /\ [][ImportNext]_iVars => []ImportInv
  BY ImportStarts, ImportInvStep, PTL
<1>2. ImportInit /\ [][ImportNext]_iVars => NotesKept
  BY <1>1, NotesKeptStep, PTL DEF NotesKept
<1> QED BY <1>2, SafeSpecs, PTL

\* A board that is asked to end takes its hand-iroh with it, and leaves none when its records are removed
\* (sidecar/sidecar.go).
THEOREM SidesEnd == SafeSpec => EndedAsStopped
<1>1. ServicesInit /\ [][ServicesNext]_wsVars => [][SideEnded]_wsVars
  BY ServicesStarts, ServicesStep, SideEndedStep, PTL
<1>2. EndedAsStopped <=> [][SideEnded]_wsVars
  BY DEF EndedAsStopped, SideEnded
<1> QED BY <1>1, <1>2, SafeSpecs, PTL

\* Of a launch: hand's keys answer what they were meant for, and the row says what was left to the operator.  Of
\* files: what is removed was old, and a trash and snapshots keep the rest (cli/attempt.go, inbox/inbox.go, retention/retention.go).
THEOREM TracesSafely == SafeSpec => []TracesSafe
<1>1. ScreensInv /\ KeepingInv => TracesSafe
  BY ScreensImplies, KeepingImplies DEF TracesSafe
<1> QED BY <1>1, SafeSpecs, ScreensStarts, ScreensStep, KeepingStarts, KeepingStep, PTL
=============================================================================

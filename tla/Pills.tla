------------------------------- MODULE Pills --------------------------------
(* The switches of the quick settings panel: each click shows the new state  *)
(* at once and starts a process that brings it about, while a poll reads     *)
(* the system back every two seconds. Night light, a process of its own, is *)
(* left out.                                                                *)
EXTENDS Naturals, Sequences, SequencesExt

CONSTANTS MaxPillClicks   \* bound: clicks, and changes by others

ASSUME PillsAssumption == MaxPillClicks \in Nat

VARIABLES
  radio,     \* what is on: the Wi-Fi and the Bluetooth radio
  nmcli,     \* "answers", "silent" (it runs and prints nothing) or "missing"
  switches,  \* the radios rfkill lists; none also if there is no rfkill
  pills,     \* what the switches show
  commands,  \* processes started and not done yet
  probe,     \* the answers the poll has read and not shown yet, in order
  pillClicks

systemVars == <<radio, nmcli, switches>>
pillVars == <<systemVars, pills, commands, probe, pillClicks>>

Radio == [wifi : BOOLEAN, bluetooth : BOOLEAN]
Pills == [wifi : BOOLEAN, bluetooth : BOOLEAN, airplane : BOOLEAN]

(* What each of the three processes answers if the radios are r, a constant *)
(* where it cannot: airplane mode is every radio listed blocked.            *)
WifiAnswer(r) == nmcli = "missing" \/ (nmcli = "answers" /\ r.wifi)
BluetoothAnswer(r) == "bluetooth" \in switches => r.bluetooth
AirplaneAnswer(r) == switches # {} /\ \A what \in switches : ~r[what]

(* PillsState::read_from_system runs them one after the other.              *)
NextAnswer(r) == CASE Len(probe) = 0 -> WifiAnswer(r)
                   [] Len(probe) = 1 -> BluetoothAnswer(r)
                   [] Len(probe) = 2 -> AirplaneAnswer(r)

(* The first reading; the radios may change while it is made.               *)
PillsInit ==
  /\ radio \in Radio /\ nmcli \in {"answers", "silent", "missing"}
  /\ switches \in SUBSET {"wifi", "bluetooth"}
  /\ \E w, b \in Radio : pills = [wifi |-> WifiAnswer(w), bluetooth |-> BluetoothAnswer(b),
                                  airplane |-> AirplaneAnswer(radio)]
  /\ commands = <<>> /\ probe = <<>> /\ pillClicks = 0

Starts(what, on) == commands' = Append(commands, [what |-> what, on |-> on])

PillClicked(what) ==
  /\ pillClicks < MaxPillClicks /\ pillClicks' = pillClicks + 1
  /\ LET on == ~pills[what] IN
       \/ what \in {"wifi", "bluetooth"} /\ Starts(what, on) /\ pills' = [pills EXCEPT ![what] = on]
       \/ /\ what = "airplane" /\ Starts(what, on)
          /\ pills' = IF on THEN [wifi |-> FALSE, bluetooth |-> FALSE, airplane |-> TRUE]
                      ELSE [pills EXCEPT !.airplane = FALSE]
  /\ UNCHANGED <<systemVars, probe>>

(* nmcli switches the Wi-Fi radio, rfkill those that it lists.              *)
After(c, r) ==
  CASE c.what = "airplane"  -> [what \in DOMAIN r |-> IF what \in switches THEN ~c.on ELSE r[what]]
    [] c.what = "wifi"      -> IF nmcli = "answers" THEN [r EXCEPT !.wifi = c.on] ELSE r
    [] c.what = "bluetooth" -> IF "bluetooth" \in switches THEN [r EXCEPT !.bluetooth = c.on] ELSE r

(* The processes run side by side: they may overtake each other, and fail.  *)
CommandRuns ==
  \E n \in DOMAIN commands :
    /\ commands' = RemoveAt(commands, n)
    /\ radio' \in {radio, After(commands[n], radio)}
    /\ UNCHANGED <<nmcli, switches, pills, probe, pillClicks>>

(* Others switch a radio; NetworkManager and adapters come and go.          *)
SystemChanges ==
  /\ pillClicks < MaxPillClicks /\ pillClicks' = pillClicks + 1
  /\ radio' \in Radio /\ nmcli' \in {"answers", "silent", "missing"}
  /\ switches' \in SUBSET {"wifi", "bluetooth"}
  /\ UNCHANGED <<pills, commands, probe>>

ProbeReads ==
  /\ Len(probe) < 3 /\ probe' = Append(probe, NextAnswer(radio))
  /\ UNCHANGED <<systemVars, pills, commands, pillClicks>>

(* Mutant of ProbeShown: a pill that the panel set itself is kept.          *)
ProbeShownNoAir ==
  /\ Len(probe) = 3 /\ probe' = <<>>
  /\ pills' = [pills EXCEPT !.wifi = probe[1], !.bluetooth = probe[2]]
  /\ UNCHANGED <<systemVars, commands, pillClicks>>

ProbeShown ==
  /\ Len(probe) = 3 /\ probe' = <<>>
  /\ pills' = [wifi |-> probe[1], bluetooth |-> probe[2], airplane |-> probe[3]]
  /\ UNCHANGED <<systemVars, commands, pillClicks>>

PillsNext ==
  \/ \E what \in {"wifi", "bluetooth", "airplane"} : PillClicked(what)
  \/ CommandRuns \/ SystemChanges \/ ProbeReads \/ ProbeShown

PillsSpec == PillsInit /\ [][PillsNext]_pillVars

PillsType ==
  /\ radio \in Radio /\ pillClicks \in 0..MaxPillClicks /\ Len(commands) <= MaxPillClicks
  /\ pills \in Pills /\ probe \in Seq(BOOLEAN) /\ Len(probe) <= 3

(* panel.rs:107-109 "so the pills reflect external changes": in an open      *)
(* panel each switch ends up showing the radio as it is, if its tool can     *)
(* tell, in whichever order the processes of the clicks ran and whether they *)
(* failed; a probe read before a click, or half before it, and shown after   *)
(* it does not last. If the tool cannot tell, the switch ends up at its      *)
(* fallback (mod.rs:76-83), whatever was clicked.                           *)
PillsSettle == <>[]
  /\ CASE nmcli = "answers" -> pills.wifi = radio.wifi
       [] nmcli = "silent"  -> ~pills.wifi
       [] nmcli = "missing" -> pills.wifi
  /\ IF "bluetooth" \in switches THEN pills.bluetooth = radio.bluetooth ELSE pills.bluetooth
  /\ pills.airplane = (switches # {} /\ \A what \in switches : ~radio[what])
=============================================================================

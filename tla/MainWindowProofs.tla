---------------------------- MODULE MainWindowProofs ----------------------------
(***************************************************************************)
(* Proofs about MainWindow, for every set of paths, whatever they are      *)
(* found to hold, and any number of windows: the program lives as long as  *)
(* its windows, and opening a file leaves the other windows alone.         *)
(***************************************************************************)
EXTENDS MainWindow, TLAPS

\* How far the program is: before its first window there is at most the dialog of the start,
\* and only a running program has a dialog of a window.
Phases ==
    /\ pc = "start" => windows = <<>> /\ code = 0 /\ links = 0
    /\ pc = "running" => code = 0 /\ windows # <<>>
    /\ dialog = 0 => pc = "start" /\ arg = None
    /\ dialog \in 1..Len(windows) => pc = "running"

WindowInv == TypeOK /\ WindowsAlive /\ Phases

\* The windows there were are as they were; there is one more at most.
OthersKept ==
    /\ \A w \in 1..Len(windows) : w \in DOMAIN windows' /\ windows'[w] = windows[w]
    /\ Len(windows') <= Len(windows) + 1

\* An element of a sequence is of the sequence's kind.
LEMMA ElementOf == ASSUME NEW S, NEW s \in Seq(S), NEW k \in 1..Len(s) PROVE s[k] \in S
  OBVIOUS

\* 0 and None stand for no window.
LEMMA NoWindow == TypeOK => Len(windows) \in Nat /\ 0 \notin 1..Len(windows) /\ None \notin 1..Len(windows) /\ None # 0
  BY WindowAssumption DEF TypeOK

\* A window is added behind the others, and is open.
LEMMA ShowKeeps ==
    ASSUME WindowInv, NEW path \in Paths, NEW content \in {"object", "image"},
           ShowWindow(path, content), pc \in {"start", "running"}, dialog' = None,
           arg' = arg, links' = links, messages' = messages
    PROVE  WindowInv' /\ OthersKept
<1> DEFINE new == Window(path, content)
<1>1. /\ windows \in Seq(MainWindows) /\ Len(windows) \in Nat
      /\ windows' = Append(windows, new) /\ pc' = "running" /\ code' = code
  BY DEF WindowInv, TypeOK, ShowWindow
<1>2. new \in MainWindows /\ new.open = TRUE
  BY DEF Window, MainWindows
<1> HIDE DEF new
<1>3. /\ windows' \in Seq(MainWindows) /\ Len(windows') = Len(windows) + 1
      /\ DOMAIN windows' = 1..(Len(windows) + 1)
      /\ windows'[Len(windows) + 1] = new
      /\ \A w \in 1..Len(windows) : windows'[w] = windows[w]
  BY <1>1, <1>2
<1>4. Open \subseteq Open' /\ Len(windows) + 1 \in Open'
  BY <1>1, <1>2, <1>3 DEF Open
<1>5. code = 0
  BY DEF WindowInv, Phases
<1>6. TypeOK'
  BY <1>1, <1>3 DEF WindowInv, TypeOK
<1>7. WindowsAlive'
  BY <1>1, <1>4 DEF WindowInv, WindowsAlive
<1>8. Phases'
  BY <1>1, <1>3, <1>5, WindowAssumption DEF Phases
<1> QED
  BY <1>1, <1>3, <1>6, <1>7, <1>8 DEF WindowInv, OthersKept

\* The program ends, and its windows with it, without opening one.
LEMMA EndKeeps ==
    ASSUME WindowInv, dialog' = None, arg' = arg, links' = links, messages' = messages,
           Crash \/ (pc = "start" /\ Exit(1))
    PROVE  WindowInv' /\ OthersKept
<1>1. windows' = windows /\ windows \in Seq(MainWindows)
  BY DEF Crash, Exit, WindowInv, TypeOK
<1>2. TypeOK'
  BY <1>1 DEF Crash, Exit, WindowInv, TypeOK
<1>3. Open' = Open
  BY <1>1 DEF Open
<1>4. WindowsAlive'
  <2>1. CASE Crash
    BY <1>1, <1>3, <2>1 DEF Crash, WindowInv, WindowsAlive
  <2>2. CASE pc = "start" /\ Exit(1)
    <3>1. windows = <<>> /\ Open = {}
      BY <2>2 DEF WindowInv, Phases, Open
    <3> QED
      BY <1>1, <1>3, <2>2, <3>1 DEF Exit, WindowInv, WindowsAlive
  <2> QED
    BY <2>1, <2>2
<1>5. Phases'
  BY <1>1, WindowAssumption DEF Crash, Exit, Phases
<1>6. OthersKept
  BY <1>1 DEF OthersKept
<1> QED
  BY <1>1, <1>2, <1>4, <1>5, <1>6 DEF WindowInv

\* Opening the first file, or failing to.
LEMMA OpenFirstKeeps ==
    ASSUME WindowInv, pc = "start", dialog' = None, arg' = arg, links' = links, messages' = messages,
           NEW path \in Paths, NEW content \in Contents, OpenFirst(path, content)
    PROVE  WindowInv' /\ OthersKept
  BY ShowKeeps, EndKeeps DEF OpenFirst

\* Opening another one from the menu of a window.
LEMMA OpenAnotherKeeps ==
    ASSUME WindowInv, pc = "running", dialog' = None, arg' = arg, links' = links, messages' = messages,
           NEW path \in Paths, NEW content \in Contents, OpenAnother(path, content)
    PROVE  WindowInv' /\ OthersKept
  BY ShowKeeps, EndKeeps DEF OpenAnother

\* A dialog is opened, canceled, or a message closed: no window changes.
LEMMA WindowsSame ==
    ASSUME WindowInv, UNCHANGED <<pc, code, arg, windows, links>>,
           messages' \subseteq Open,
           \/ dialog' = None
           \/ dialog' = dialog
           \/ dialog' \in Open /\ pc = "running"
           \/ dialog' = 0 /\ pc = "start" /\ arg = None
    PROVE  WindowInv'
<1>1. Open' = Open /\ Open \subseteq 1..Len(windows) /\ Len(windows') = Len(windows)
  BY DEF Open
<1>2. TypeOK'
  BY <1>1 DEF WindowInv, TypeOK
<1>3. None # 0 /\ None \notin 1..Len(windows) /\ 0 \notin 1..Len(windows)
  BY NoWindow DEF WindowInv
<1>4. WindowsAlive'
  BY <1>1, <1>3 DEF WindowInv, WindowsAlive
<1>5. Phases'
  BY <1>1, <1>3 DEF WindowInv, Phases
<1> QED
  BY <1>2, <1>4, <1>5 DEF WindowInv

\* A window is closed, the last one with the program.
LEMMA CloseKeeps == ASSUME WindowInv, NEW w \in 1..Len(windows), CloseWindow(w) PROVE WindowInv'
<1>1. /\ windows \in Seq(MainWindows) /\ Len(windows) \in Nat /\ w \in Open
      /\ windows' = [windows EXCEPT ![w].open = FALSE]
      /\ messages' = messages \ {w} /\ dialog = None /\ dialog' = None
      /\ pc = "running" /\ pc' = (IF Open = {w} /\ links = 0 THEN "exited" ELSE "running")
      /\ code' = code /\ code = 0 /\ arg' = arg /\ links' = links /\ links \in Nat
  BY DEF WindowInv, TypeOK, Phases, CloseWindow, Idle
<1>2. windows[w] \in MainWindows
  BY <1>1, ElementOf
<1>3. /\ Len(windows') = Len(windows) /\ windows'[w].open = FALSE
      /\ \A v \in 1..Len(windows) : v # w => windows'[v] = windows[v]
  BY <1>1
<1>4. windows' \in Seq(MainWindows)
  <2>1. [windows[w] EXCEPT !.open = FALSE] \in MainWindows
    BY <1>2 DEF MainWindows
  <2>2. windows' = [windows EXCEPT ![w] = [windows[w] EXCEPT !.open = FALSE]]
    BY <1>1
  <2> QED
    BY <1>1, <2>1, <2>2
<1>5. Open' = Open \ {w}
  BY <1>3 DEF Open
<1>6. TypeOK'
  BY <1>1, <1>3, <1>4 DEF WindowInv, TypeOK
<1>7. WindowsAlive'
  <2>1. windows' # <<>>
    BY <1>1, <1>3
  <2> QED
    BY <1>1, <1>5, <2>1 DEF WindowInv, WindowsAlive
<1>8. Phases'
  BY <1>1, <1>3, WindowAssumption DEF Phases
<1> QED
  BY <1>6, <1>7, <1>8 DEF WindowInv

\* A link opens a window, or ends the program.
LEMMA FollowKeeps == ASSUME WindowInv, FollowLink PROVE WindowInv'
<1>1. /\ pc = "running" /\ dialog = None /\ dialog' = None
      /\ windows' = windows /\ arg' = arg /\ messages' = messages /\ links' \in Nat
      /\ (pc' = "running" /\ code' = code /\ links' = links + 1) \/ (pc' = "crashed" /\ code' = 2)
  BY DEF FollowLink, Idle, Crash, WindowInv, TypeOK
<1>2. Open' = Open
  BY <1>1 DEF Open
<1>3. TypeOK'
  BY <1>1 DEF WindowInv, TypeOK
<1>4. WindowsAlive'
  BY <1>1, <1>2 DEF WindowInv, TypeOK, WindowsAlive
<1>5. Phases'
  BY <1>1, WindowAssumption DEF WindowInv, TypeOK, Phases
<1> QED
  BY <1>3, <1>4, <1>5 DEF WindowInv

\* The window of a link is closed, the last one with the program.
LEMMA CloseLinkKeeps == ASSUME WindowInv, CloseLink PROVE WindowInv'
<1>1. /\ pc = "running" /\ dialog = None /\ dialog' = None
      /\ windows' = windows /\ arg' = arg /\ messages' = messages
      /\ links \in Nat /\ links # 0 /\ links' = links - 1 /\ code' = code /\ code = 0 /\ windows # <<>>
      /\ pc' = (IF Open = {} /\ links = 1 THEN "exited" ELSE "running")
  BY DEF CloseLink, Idle, WindowInv, TypeOK, Phases
<1>2. Open' = Open
  BY <1>1 DEF Open
<1>3. TypeOK'
  BY <1>1 DEF WindowInv, TypeOK
<1>4. WindowsAlive'
  BY <1>1, <1>2 DEF WindowInv, WindowsAlive, Phases
<1>5. Phases'
  BY <1>1, WindowAssumption DEF WindowInv, TypeOK, Phases
<1> QED
  BY <1>3, <1>4, <1>5 DEF WindowInv

-----------------------------------------------------------------------------
\* Every step keeps the invariant, and no step changes a window but that which closes it.
LEMMA StepKeeps ==
    ASSUME WindowInv, [Next]_vars
    PROVE  /\ WindowInv'
           /\ dialog # None /\ dialog' = None => OthersKept
<1>1. /\ windows \in Seq(MainWindows) /\ Len(windows) \in Nat /\ DOMAIN windows = 1..Len(windows)
      /\ messages \subseteq Open
      /\ None # 0 /\ None \notin 1..Len(windows) /\ 0 \notin 1..Len(windows)
  BY NoWindow DEF WindowInv, TypeOK, WindowsAlive
<1>same. windows' = windows => OthersKept
  BY <1>1 DEF OthersKept
<1>2. CASE StartWithPath
  <2>1. dialog = None /\ pc = "start" /\ arg \in Paths
    <3>1. dialog # 0 /\ dialog \notin 1..Len(windows)
      BY <1>2 DEF StartWithPath, WindowInv, Phases
    <3> QED
      BY <1>2, <3>1 DEF StartWithPath, WindowInv, TypeOK
  <2>2. PICK content \in Contents : OpenFirst(arg, content)
    BY <1>2 DEF StartWithPath
  <2> QED
    BY <1>2, <2>1, <2>2, OpenFirstKeeps DEF StartWithPath
<1>3. CASE StartWithDialog
  BY <1>1, <1>same, <1>3, WindowsSame DEF StartWithDialog
<1>4. ASSUME NEW path \in Paths, ChooseFirst(path) PROVE WindowInv' /\ OthersKept
  <2>1. pc = "start"
    BY <1>4 DEF ChooseFirst, WindowInv, Phases
  <2>2. PICK content \in Contents : OpenFirst(path, content)
    BY <1>4 DEF ChooseFirst
  <2> QED
    BY <1>4, <2>1, <2>2, OpenFirstKeeps DEF ChooseFirst
<1>5. ASSUME NEW path \in Paths, Choose(path) PROVE WindowInv' /\ OthersKept
  <2>1. pc = "running"
    BY <1>5 DEF Choose, WindowInv, Phases
  <2>2. PICK content \in Contents : OpenAnother(path, content)
    BY <1>5 DEF Choose
  <2> QED
    BY <1>5, <2>1, <2>2, OpenAnotherKeeps DEF Choose
<1>6. CASE CancelFirst
  <2>1. pc = "start"
    BY <1>6 DEF CancelFirst, WindowInv, Phases
  <2> QED
    BY <1>6, <2>1, EndKeeps DEF CancelFirst
<1>7. ASSUME NEW w \in 1..Len(windows), TriggerOpen(w) PROVE WindowInv' /\ dialog' # None
  BY <1>1, <1>7, WindowsSame DEF TriggerOpen, Idle
<1>8. ASSUME NEW w \in 1..Len(windows), CloseWindow(w) PROVE WindowInv' /\ dialog = None
  BY <1>8, CloseKeeps DEF CloseWindow, Idle
<1>9. CASE Cancel
  <2>1. dialog \in Open
    BY <1>1, <1>9 DEF Cancel, WindowInv, WindowsAlive
  <2> QED
    BY <1>1, <1>same, <1>9, <2>1, WindowsSame DEF Cancel
<1>10. ASSUME NEW w \in messages, Dismiss(w) PROVE WindowInv' /\ windows' = windows
  BY <1>1, <1>10, WindowsSame DEF Dismiss
<1>12. CASE FollowLink
  BY <1>12, FollowKeeps DEF FollowLink, Idle
<1>13. CASE CloseLink
  BY <1>13, CloseLinkKeeps DEF CloseLink, Idle
<1>11. CASE UNCHANGED vars
  BY <1>1, <1>same, <1>11, WindowsSame DEF vars
<1> QED
  BY <1>same, <1>2, <1>3, <1>4, <1>5, <1>6, <1>7, <1>8, <1>9, <1>10, <1>11, <1>12, <1>13 DEF Next

\* The inductive invariant of the windows, for any number of them.
THEOREM WindowInvariant == Spec => []WindowInv
<1>1. Init => WindowInv
  <2> SUFFICES ASSUME Init PROVE WindowInv
    OBVIOUS
  <2>1. Len(windows) = 0 /\ 1..0 = {} /\ windows \in Seq(MainWindows) /\ None # 0
    BY WindowAssumption DEF Init
  <2>2. Open = {}
    BY <2>1 DEF Open
  <2>3. TypeOK
    BY <2>1 DEF Init, TypeOK
  <2> QED
    BY <2>1, <2>2, <2>3 DEF Init, WindowInv, WindowsAlive, Phases
<1>2. WindowInv /\ [Next]_vars => WindowInv'
  BY StepKeeps
<1> QED
  BY <1>1, <1>2, PTL DEF Spec

\* What the program keeps of its windows has its types.
THEOREM TypeCorrect == Spec => []TypeOK
<1>1. WindowInv => TypeOK
  BY DEF WindowInv
<1> QED
  BY <1>1, WindowInvariant, PTL

\* The program lives as long as its windows; dialogs and messages belong to open ones.
THEOREM LivesWithWindows == Spec => []WindowsAlive
<1>1. WindowInv => WindowsAlive
  BY DEF WindowInv
<1> QED
  BY <1>1, WindowInvariant, PTL

\* A file that is opened, or cannot be, leaves the windows there are as they are.
THEOREM OpeningLeavesOthers == Spec => OthersLeftAlone
<1>1. WindowInv /\ [Next]_vars =>
        [dialog # None /\ dialog' = None /\ pc' # "crashed" =>
           /\ \A w \in 1..Len(windows) : w \in DOMAIN windows' /\ windows'[w] = windows[w]
           /\ Len(windows') <= Len(windows) + 1]_vars
  BY StepKeeps DEF OthersKept
<1> QED
  BY <1>1, WindowInvariant, PTL DEF Spec, OthersLeftAlone

=================================================================================

------------------------------ MODULE MainWindow ------------------------------
(***************************************************************************)
(* The program's windows (goview.go, macho_widgets/central_widget.go):     *)
(* each shows one file; "Open..." in the menu of any of them asks for a    *)
(* file in a dialog and shows it in a new window.  A link in the tables of *)
(* an object file opens a window as well (macho_widgets/data_view.go): it  *)
(* has no menu, and no parent either, so it keeps the program running.     *)
(*                                                                         *)
(* Everything happens in Qt's one thread, but dialog.Exec runs an event    *)
(* loop of its own: the handler of "Open..." is suspended in there, in     *)
(* front of all windows, until the dialog is closed.                       *)
(***************************************************************************)
EXTENDS Integers, Sequences

CONSTANTS
    Paths,       \* the paths there are
    Contents,    \* what a path may be found to be: see ASSUME
    MaxWindows,  \* bound: the most windows opened in a run
    MaxLinks,    \* bound: the most windows of links open at once
    None         \* no window

\* A path that macho.Open cannot open; an object file; another file; a file that makes
\* NewCentralWidget panic.
ASSUME WindowAssumption ==
    /\ Contents \subseteq {"unreadable", "object", "image", "panics"}
    /\ MaxWindows \in Nat /\ MaxLinks \in Nat /\ None \notin Nat

VARIABLES
    pc,        \* "start", "running", "exited" or "crashed"
    code,      \* the exit code
    arg,       \* os.Args[1], or None
    windows,   \* every main window that was shown: its title, its tabs and whether it is open
    links,     \* how many windows of links are open
    dialog,    \* the window the open-file dialog belongs to, 0 for that of the start, or None
    messages   \* the windows with an error message on display

vars == <<pc, code, arg, windows, links, dialog, messages>>

-----------------------------------------------------------------------------

\* NewCentralWidget
TabsOf(content) ==
    <<"Structure", "Symbols">> \o IF content = "object" THEN <<"Relocations">> ELSE <<>>

Window(path, content) == [title |-> path, tabs |-> TabsOf(content), open |-> TRUE]

Open == {w \in 1..Len(windows) : windows[w].open}

Init ==
    /\ pc = "start"
    /\ code = 0
    /\ arg \in Paths \cup {None}
    /\ windows = <<>>
    /\ links = 0
    /\ dialog = None
    /\ messages = {}

ShowInPlace(path, content) ==
    /\ windows' = IF dialog \in Open THEN [windows EXCEPT ![dialog] = Window(path, content)]
                  ELSE Append(windows, Window(path, content))
    /\ pc' = "running"
    /\ UNCHANGED code
ShowWindow(path, content) ==
    /\ windows' = Append(windows, Window(path, content))
    /\ pc' = "running"
    /\ UNCHANGED code

Exit(c) ==
    /\ pc' = "exited"
    /\ code' = c
    /\ UNCHANGED windows

\* A panic, also of a callback, ends the program with the exit code 2.
Crash ==
    /\ pc' = "crashed"
    /\ code' = 2
    /\ UNCHANGED windows

\* NewMainWindow once the path is known; main exits when it fails.
OpenFirst(path, content) ==
    \/ content = "unreadable" /\ Exit(1)
    \/ content = "panics" /\ Crash
    \/ content \in {"object", "image"} /\ ShowWindow(path, content)

\* The rest of the menu's handler: for a file that cannot be opened, Close is called on the
\* nil that macho.Open returned, before the message is shown.
OpenAnother(path, content) ==
    \/ content \in {"unreadable", "panics"} /\ Crash
    \/ content \in {"object", "image"} /\ ShowWindow(path, content)

StartWithPath ==
    /\ pc = "start"
    /\ arg # None
    /\ \E content \in Contents : OpenFirst(arg, content)
    /\ UNCHANGED <<arg, links, dialog, messages>>

StartWithDialog ==
    /\ pc = "start"
    /\ arg = None
    /\ dialog = None
    /\ dialog' = 0
    /\ UNCHANGED <<pc, code, arg, windows, links, messages>>

ChooseFirst(path) ==
    /\ dialog = 0
    /\ dialog' = None
    /\ \E content \in Contents : OpenFirst(path, content)
    /\ UNCHANGED <<arg, links, messages>>

CancelFirst ==
    /\ dialog = 0
    /\ dialog' = None
    /\ Exit(1)
    /\ UNCHANGED <<arg, links, messages>>

\* Nothing else of the program can be reached while a dialog is open.
Idle == pc = "running" /\ dialog = None

TriggerOpen(w) ==
    /\ Idle
    /\ w \in Open
    /\ Len(windows) < MaxWindows
    /\ dialog' = w
    /\ UNCHANGED <<pc, code, arg, windows, links, messages>>

Choose(path) ==
    /\ dialog \in 1..Len(windows)
    /\ dialog' = None
    /\ \E content \in Contents : OpenAnother(path, content)
    /\ UNCHANGED <<arg, links, messages>>

\* openFile returns an error, which is shown in a message of the window.
Cancel ==
    /\ dialog \in 1..Len(windows)
    /\ dialog' = None
    /\ messages' = messages \cup {dialog}
    /\ UNCHANGED <<pc, code, arg, windows, links>>

\* The last message of a window is closed.
Dismiss(w) ==
    /\ Idle
    /\ messages' = messages \ {w}
    /\ UNCHANGED <<pc, code, arg, windows, links, dialog>>

\* A click on a link, in a table of an object file or in the window of another link; see
\* Anchors for what panics in it.
FollowLink ==
    /\ Idle
    /\ links # 0 \/ \E w \in Open : windows[w].tabs = TabsOf("object")
    /\ links < MaxLinks
    /\ \/ links' = links + 1 /\ UNCHANGED <<pc, code, windows>>
       \/ Crash /\ UNCHANGED links
    /\ UNCHANGED <<arg, dialog, messages>>

\* app.Exec returns when the last of the windows without a parent is closed, whatever it
\* shows.  A window takes its messages with it.
CloseWindowOfFile(w) ==
    /\ Idle
    /\ w \in Open
    /\ windows' = [windows EXCEPT ![w].open = FALSE]
    /\ messages' = messages \ {w}
    /\ pc' = IF Open = {w} THEN "exited" ELSE pc
    /\ UNCHANGED <<code, arg, links, dialog>>
CloseWindow(w) ==
    /\ Idle
    /\ w \in Open
    /\ windows' = [windows EXCEPT ![w].open = FALSE]
    /\ messages' = messages \ {w}
    /\ pc' = IF Open = {w} /\ links = 0 THEN "exited" ELSE pc
    /\ UNCHANGED <<code, arg, links, dialog>>

CloseLink ==
    /\ Idle
    /\ links # 0
    /\ links' = links - 1
    /\ pc' = IF Open = {} /\ links = 1 THEN "exited" ELSE pc
    /\ UNCHANGED <<code, arg, windows, dialog, messages>>

Next ==
    \/ StartWithPath
    \/ StartWithDialog
    \/ \E path \in Paths : ChooseFirst(path) \/ Choose(path)
    \/ CancelFirst
    \/ \E w \in 1..Len(windows) : TriggerOpen(w) \/ CloseWindow(w)
    \/ Cancel
    \/ FollowLink
    \/ CloseLink
    \/ \E w \in messages : Dismiss(w)

Spec == Init /\ [][Next]_vars

-----------------------------------------------------------------------------
(* What makes it correct.                                                    *)

MainWindows ==
    [title: Paths, tabs: {TabsOf("object"), TabsOf("image")}, open: BOOLEAN]

\* Type invariant of the program's windows.
TypeOK ==
    /\ pc \in {"start", "running", "exited", "crashed"}
    /\ code \in 0..2
    /\ arg \in Paths \cup {None}
    /\ windows \in Seq(MainWindows)
    /\ links \in Nat
    /\ dialog \in {0, None} \cup 1..Len(windows)
    /\ messages \subseteq 1..Len(windows)

\* The program runs exactly while a window is open, be it only that of a link that was
\* followed from a file whose window is closed.  Dialogs and messages belong to open
\* windows, and the exit code tells a start that failed from a session that ended.
WindowsAlive ==
    /\ (pc = "running") <=> (pc # "crashed" /\ (Open # {} \/ links # 0))
    /\ dialog # None => (dialog \in Open \/ (dialog = 0 /\ pc = "start"))
    /\ messages \subseteq Open
    /\ pc = "exited" => (code = 1 <=> windows = <<>>)

\* Opening a file, or not opening one after all, leaves the windows that are open as they
\* are; only a crash of the program takes them away.
OthersLeftAlone ==
    [][dialog # None /\ dialog' = None /\ pc' # "crashed" =>
        /\ \A w \in 1..Len(windows) : w \in DOMAIN windows' /\ windows'[w] = windows[w]
        /\ Len(windows') <= Len(windows) + 1]_vars

=============================================================================

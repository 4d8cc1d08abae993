---------------------------- MODULE LibraryView ----------------------------
(***************************************************************************)
(* The view of the library page - search, filter and order - and the three *)
(* places that keep it: the page's signals, the tab's address with its     *)
(* copy in sessionStorage, and the preferences on the server.  The         *)
(* application shell around it shows the sign-in gate, the library or the  *)
(* reader.  One tab and one browser session are modelled, with a second    *)
(* device of the same accounts that writes preferences.                    *)
(*                                                                         *)
(* The filter and the order are handled by the same code, once for each:   *)
(* they are the elements of Parts, with Default as the value a new user    *)
(* gets and Unknown as a value this version of the page does not offer.    *)
(***************************************************************************)
EXTENDS Naturals, Sequences

CONSTANTS
    Accounts, Parts, Values, Default, Unknown, None,
    MaxInputs,   \* what the user and the second device do, together
    MaxFaults    \* failed requests and expired sessions

ASSUME ViewAssumption ==
    /\ Default \in Values
    /\ Unknown \notin Values
    /\ None \notin Values \cup {Unknown} \cup Accounts
    /\ MaxInputs \in Nat /\ MaxFaults \in Nat

VARIABLES
    signedIn,   \* the account of the browser's session on the server, or None
    stored,     \* the preferences of each account
    foreign,    \* parts the server took from elsewhere since this page read them
    shell,      \* what the tab shows
    viewer,     \* the account the shell believes is signed in
    address,    \* the library's address in this tab
    memory,     \* its copy in sessionStorage
    page,       \* the store of the open library page
    left,       \* the save chain of a library page that was left, and what that page last showed
    inputs, faults

vars == <<signedIn, stored, foreign, shell, viewer, address, memory, page, left,
          inputs, faults>>

Kept == Values \cup {Unknown}
Nothing == [p \in Parts |-> None]

\* An address: its search (told apart only by who typed it), the parts it names,
\* and, for the properties, the account whose view it is.
Bare == [query |-> None, named |-> Nothing, by |-> None]
Addresses == [query : Accounts \cup {None}, named : [Parts -> Kept \cup {None}],
              by : Accounts \cup {None}]

\* Saves of one page, one at a time: what is queued, and where its first one is.
NoSaves == [queue |-> <<>>, phase |-> "idle"]
Saves == [queue : Seq([part : Parts, value : Values]), phase : {"idle", "sent", "kept", "refused"}]

NoLeft == [saves |-> NoSaves, shown |-> Nothing]

NoPage == [of |-> None, query |-> None, shown |-> Nothing, remembered |-> Nothing,
           chosen |-> {}, saved |-> {}, addressed |-> {}, read |-> "none",
           answer |-> Nothing, failed |-> FALSE, saves |-> NoSaves]

TypeOK ==
    /\ signedIn \in Accounts \cup {None} /\ viewer \in Accounts \cup {None}
    /\ stored \in [Accounts -> [Parts -> Kept]] /\ foreign \subseteq Parts
    /\ shell \in {"opening", "offline", "gate", "library", "reader", "direct", "closing"}
    /\ address \in Addresses /\ memory \in Addresses
    /\ page = NoPage \/ (/\ page.of \in Accounts /\ page.query \in Accounts \cup {None}
                         /\ page.shown \in [Parts -> Values]
                         /\ page.remembered \in [Parts -> Values]
                         /\ page.read \in {"sent", "served", "read", "failed"}
                         /\ page.answer \in [Parts -> Kept \cup {None}]
                         /\ page.chosen \cup page.saved \cup page.addressed \subseteq Parts
                         /\ page.saves \in Saves)
    /\ left = NoLeft \/ (left.saves \in Saves /\ left.shown \in [Parts -> Values])
    /\ inputs \in 0..MaxInputs /\ faults \in 0..MaxFaults

-----------------------------------------------------------------------------
Settled(pg) == pg.read \in {"read", "failed"}

\* viewFromParams: a part the page does not offer is left out.
Named(addr, p) == addr.named[p] \in Values

\* A new store: the address wins, and the rest waits for the preferences.
Opened(who, addr) ==
    LET shown == [p \in Parts |-> IF Named(addr, p) THEN addr.named[p] ELSE Default]
    IN [NoPage EXCEPT !.of = who, !.query = addr.query, !.shown = shown,
                      !.remembered = [p \in Parts |-> Default],
                      !.addressed = {p \in Parts : Named(addr, p)}, !.read = "sent"]

\* paramsOfView: a part stays out unless this tab or its address chose it, and
\* also when it is the default that a bare address opens on.
Explicit(pg, p) == p \in pg.chosen \cup pg.addressed
NamesChanges(pg, p) == Explicit(pg, p) /\ pg.shown[p] # Default
Names(pg, p) ==
    /\ Explicit(pg, p)
    /\ pg.shown[p] # Default \/ pg.shown[p] # pg.remembered[p]

ParamsOfView(pg) ==
    LET named == [p \in Parts |-> IF Names(pg, p) THEN pg.shown[p] ELSE None]
    IN IF pg.query = None /\ named = Nothing THEN Bare
       ELSE [query |-> pg.query, named |-> named, by |-> pg.of]

\* Every change of the signals runs the effect that writes the address.
Show(pg) ==
    /\ page' = pg
    /\ IF Settled(pg) THEN address' = ParamsOfView(pg) /\ memory' = ParamsOfView(pg)
       ELSE UNCHANGED <<address, memory>>

Input == inputs < MaxInputs /\ inputs' = inputs + 1 /\ UNCHANGED faults
Fault == faults < MaxFaults /\ faults' = faults + 1 /\ UNCHANGED inputs
NoBudget == UNCHANGED <<inputs, faults>>

\* The shell forgets the library's search before it shows the gate.  The
\* navigation that clears the address may fail; sign-in then strips it itself.
ForgetAddress == address' \in {Bare, address} /\ UNCHANGED memory
ForgetLibrarySearch ==
    /\ memory' = Bare
    /\ address' \in {Bare, address}
KeepLibrarySearch == UNCHANGED <<address, memory>>

\* A document that goes takes its requests with it; the router only takes the page.
Unload == page' = NoPage /\ left' = NoLeft /\ foreign' = {}

\* showSignInGate, which every 401 but the session's own leads to.
ShowSignInGate ==
    /\ ForgetLibrarySearch
    /\ shell' = "gate" /\ viewer' = None
    /\ page' = NoPage /\ foreign' = {}

-----------------------------------------------------------------------------
Init ==
    /\ signedIn \in Accounts
    /\ \E s \in [Parts -> Values] :
         stored = [a \in Accounts |-> IF a = signedIn THEN s ELSE [p \in Parts |-> Default]]
    /\ \E n \in [Parts -> Kept \cup {None}] : address = [Bare EXCEPT !.named = n]
    /\ shell = "opening" /\ viewer = None /\ memory = Bare
    /\ page = NoPage /\ left = NoLeft /\ foreign = {}
    /\ inputs = 0 /\ faults = 0

\* App.ngOnInit: the session answers, or cannot be reached.
SessionRead ==
    /\ shell = "opening" /\ NoBudget
    /\ viewer' = signedIn
    /\ IF signedIn = None
       THEN shell' = "gate" /\ ForgetLibrarySearch /\ page' = NoPage
       ELSE shell' = "library" /\ KeepLibrarySearch /\ page' = Opened(signedIn, address)
    /\ UNCHANGED <<signedIn, stored, foreign, left>>

SessionUnreachable ==
    /\ shell = "opening" /\ Fault
    /\ shell' = "offline"
    /\ UNCHANGED <<signedIn, stored, foreign, viewer, address, memory, page, left>>

Reload ==
    /\ shell \in {"offline", "library", "gate"} /\ Input
    /\ shell' = "opening" /\ viewer' = None /\ Unload
    /\ UNCHANGED <<signedIn, stored, address, memory>>

\* googleSignInURL names the address without its search, filter and order.
SignIn(a) ==
    /\ shell = "gate" /\ Input
    /\ signedIn' = a /\ shell' = "opening" /\ address' = Bare /\ Unload
    /\ UNCHANGED <<stored, viewer, memory>>

\* logout: the session is gone, and the tab is on its way to a bare address.
\* Until the new document is there, the page still runs.
Logout ==
    /\ shell = "library" /\ signedIn = viewer /\ Input
    /\ signedIn' = None /\ memory' = Bare /\ shell' = "closing"
    /\ UNCHANGED <<stored, foreign, viewer, address, page, left>>

Replaced ==
    /\ shell = "closing" /\ NoBudget
    /\ shell' = "opening" /\ address' = Bare /\ viewer' = None /\ Unload
    /\ UNCHANGED <<signedIn, stored, memory>>

Expire ==
    /\ signedIn # None /\ Fault
    /\ signedIn' = None
    /\ UNCHANGED <<stored, foreign, shell, viewer, address, memory, page, left>>

-----------------------------------------------------------------------------
\* A piece opens in the reader; the page goes, its save chain does not, and what
\* it last showed still decides which of its saves go out.
OpenReader ==
    /\ shell = "library" /\ left = NoLeft /\ Input
    /\ shell' = "reader" /\ page' = NoPage
    /\ left' = IF page.saves = NoSaves THEN NoLeft
               ELSE [saves |-> page.saves, shown |-> page.shown]
    /\ UNCHANGED <<signedIn, stored, foreign, viewer, address, memory>>

\* A reader opened by its own address, or reloaded, has no library behind it.
ReaderReload ==
    /\ shell = "reader" /\ signedIn # None /\ Input
    /\ shell' = "direct" /\ Unload
    /\ UNCHANGED <<signedIn, stored, viewer, address, memory>>

\* back(): the library's entry in the history, or else the remembered address.
Back ==
    /\ shell \in {"reader", "direct"} /\ NoBudget
    /\ LET addr == IF shell = "reader" THEN address ELSE memory
       IN address' = addr /\ page' = Opened(viewer, addr)
    /\ shell' = "library" /\ foreign' = {}
    /\ UNCHANGED <<signedIn, stored, viewer, memory, left>>

-----------------------------------------------------------------------------
\* The server reads the preferences, and the answer arrives or is lost.
ServeRead ==
    /\ page.read = "sent" /\ signedIn = page.of /\ NoBudget
    /\ page' = [page EXCEPT !.read = "served", !.answer = stored[page.of]]
    /\ foreign' = foreign \cap page.chosen
    /\ UNCHANGED <<signedIn, stored, shell, viewer, address, memory, left>>

\* A part not chosen here follows the answer; a chosen one only remembers it,
\* and not once the choice was saved.
Learned(pg, p) == pg.answer[p] \in Values /\ p \notin pg.chosen \cap pg.saved
Follows(pg, p) == pg.answer[p] \in Values /\ p \notin pg.chosen \cup pg.addressed

PreferencesRead ==
    /\ page.read = "served" /\ NoBudget
    /\ Show([page EXCEPT
         !.read = "read", !.answer = Nothing,
         !.remembered = [p \in Parts |-> IF Learned(page, p) THEN page.answer[p] ELSE @[p]],
         !.shown = [p \in Parts |-> IF Follows(page, p) THEN page.answer[p] ELSE @[p]]])
    /\ UNCHANGED <<signedIn, stored, foreign, shell, viewer, left>>

ReadFails ==
    /\ page.read \in {"sent", "served"} /\ Fault
    /\ Show([page EXCEPT !.read = "failed", !.answer = Nothing])
    /\ UNCHANGED <<signedIn, stored, foreign, shell, viewer, left>>

ReadRefused ==
    /\ page.read = "sent" /\ signedIn = None /\ NoBudget
    /\ ShowSignInGate
    /\ UNCHANGED <<signedIn, stored, left>>

-----------------------------------------------------------------------------
\* savePreference: a save whose value is no longer shown is skipped, and the
\* next one goes out.
Due(queue, shown) == {i \in DOMAIN queue : queue[i].value = shown[queue[i].part]}
First(queue, shown) == CHOOSE i \in Due(queue, shown) : \A j \in Due(queue, shown) : i <= j
SendNext(queue, shown) ==
    IF Due(queue, shown) = {} THEN NoSaves
    ELSE [queue |-> SubSeq(queue, First(queue, shown), Len(queue)), phase |-> "sent"]

QueueIfIdle(saves, save, shown) ==
    IF saves.phase = "idle" THEN SendNext(<<save>>, shown) ELSE saves
Queue(saves, save, shown) ==
    IF saves.phase = "idle" THEN SendNext(<<save>>, shown)
    ELSE [saves EXCEPT !.queue = Append(@, save)]

\* chooseFilter and chooseSort.
Choose(p, v) ==
    /\ shell \in {"library", "closing"} /\ page # NoPage /\ Input
    /\ ~(Settled(page) /\ v = page.shown[p] /\ v = page.remembered[p])
    /\ LET shown == [page.shown EXCEPT ![p] = v]
       IN Show([page EXCEPT !.chosen = @ \cup {p}, !.shown = shown,
                            !.saves = Queue(@, [part |-> p, value |-> v], shown)])
    /\ UNCHANGED <<signedIn, stored, foreign, shell, viewer, left>>

Search ==
    /\ shell \in {"library", "closing"} /\ page # NoPage /\ Input
    /\ Show([page EXCEPT !.query = IF @ = None THEN page.of ELSE None])
    /\ UNCHANGED <<signedIn, stored, foreign, shell, viewer, left>>

\* The server takes the first save of a chain, or the request is lost on its way.
Take(saves) == Head(saves.queue)
Store(saves) == stored' = [stored EXCEPT ![viewer][Take(saves).part] = Take(saves).value]

ServeSave ==
    /\ page.saves.phase = "sent" /\ signedIn = page.of /\ NoBudget
    /\ Store(page.saves)
    /\ page' = [page EXCEPT !.saves.phase = "kept"]
    /\ foreign' = foreign \ {Take(page.saves).part}
    /\ UNCHANGED <<signedIn, shell, viewer, address, memory, left>>

ServeLeftSave ==
    /\ left.saves.phase = "sent" /\ signedIn # None /\ signedIn = viewer /\ NoBudget
    /\ Store(left.saves)
    /\ left' = [left EXCEPT !.saves.phase = "kept"]
    /\ foreign' = foreign \cup {Take(left.saves).part}
    /\ UNCHANGED <<signedIn, shell, viewer, address, memory, page>>

LoseSave ==
    /\ page.saves.phase = "sent" /\ Fault
    /\ page' = [page EXCEPT !.saves.phase = "refused"]
    /\ UNCHANGED <<signedIn, stored, foreign, shell, viewer, address, memory, left>>

\* Its answer: a save still shown becomes what a bare address opens on, and
\* counts as saved; a failure is told.
SaveAnswered ==
    /\ page.saves.phase \in {"kept", "refused"} /\ NoBudget
    /\ LET save == Take(page.saves)
           kept == page.saves.phase = "kept" /\ page.shown[save.part] = save.value
       IN Show([page EXCEPT
            !.saves = SendNext(Tail(@.queue), page.shown),
            !.failed = @ \/ page.saves.phase = "refused",
            !.saved = IF kept THEN @ \cup {save.part} ELSE @,
            !.remembered = IF kept THEN [@ EXCEPT ![save.part] = save.value] ELSE @])
    /\ UNCHANGED <<signedIn, stored, foreign, shell, viewer, left>>

\* The page is gone: its answers and failures show nowhere.
LeftSaveAnswered ==
    /\ \/ left.saves.phase \in {"kept", "refused"} /\ NoBudget
       \/ left.saves.phase = "sent" /\ Fault
    /\ LET next == SendNext(Tail(left.saves.queue), left.shown)
       IN left' = IF next = NoSaves THEN NoLeft ELSE [left EXCEPT !.saves = next]
    /\ UNCHANGED <<signedIn, stored, foreign, shell, viewer, address, memory, page>>

SaveRefused ==
    /\ page.saves.phase = "sent" \/ left.saves.phase = "sent"
    /\ signedIn = None /\ shell \in {"library", "reader", "direct", "closing"} /\ NoBudget
    /\ ShowSignInGate
    /\ left' = NoLeft
    /\ UNCHANGED <<signedIn, stored>>

\* The same account, elsewhere.
OtherDevice(p, v) ==
    /\ viewer # None /\ Input
    /\ stored' = [stored EXCEPT ![viewer][p] = v]
    /\ foreign' = foreign \cup {p}
    /\ UNCHANGED <<signedIn, shell, viewer, address, memory, page, left>>

Next ==
    \/ SessionRead \/ SessionUnreachable \/ Reload \/ Logout \/ Replaced \/ Expire
    \/ \E a \in Accounts : SignIn(a)
    \/ OpenReader \/ ReaderReload \/ Back
    \/ ServeRead \/ PreferencesRead \/ ReadFails \/ ReadRefused
    \/ \E p \in Parts, v \in Values : Choose(p, v)
    \/ Search
    \/ ServeSave \/ ServeLeftSave \/ LoseSave \/ SaveAnswered \/ LeftSaveAnswered
    \/ SaveRefused
    \/ \E p \in Parts, v \in Kept : OtherDevice(p, v)

Spec == Init /\ [][Next]_vars

-----------------------------------------------------------------------------
\* Nothing of the page is under way, and the server's copy is as it left it.
AtRest == shell = "library" /\ page.read = "read" /\ page.saves = NoSaves

\* Once the saves are through, the server holds the last choice of this page:
\* the chain never lets an older choice land after a newer one, and the skipped
\* ones are always followed by one that counts (remember, savePreference).
LastChoiceIsStored ==
    AtRest /\ ~page.failed =>
        \A p \in page.chosen \ foreign : stored[page.of][p] = page.shown[p]

\* A page opened at the address this page wrote shows the same view, whichever
\* parts the address names and in whichever order reads, saves and choices went
\* ("The address follows the view, so a reload keeps it", the store's effect).
SameView(pg, addr) ==
    /\ addr.query = pg.query
    /\ \A p \in Parts \ foreign :
         LET kept == stored[pg.of][p]
         IN pg.shown[p] = IF Named(addr, p) THEN addr.named[p]
                          ELSE IF kept \in Values THEN kept ELSE Default

ReloadKeepsView == AtRest /\ ~page.failed => SameView(page, address) /\ SameView(page, memory)

\* The same with failed saves told to the user: "Until then the address keeps
\* the choice, so a failed save cannot fall back to the old one"
\* (savePreference).
FailedSaveKeepsChoice == AtRest => SameView(page, address)

\* No account meets the search, filter or order of another one, wherever the
\* session ended and whatever was still running then (forgetLibrarySearch,
\* clearLibraryParams, googleSignInURL).
SearchStaysWithAccount ==
    shell \in {"library", "reader", "direct"} =>
        {address.by, memory.by} \subseteq {None, viewer}
=============================================================================

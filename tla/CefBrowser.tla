----------------------------- MODULE CefBrowser -----------------------------
(***************************************************************************)
(* The driver of the embedded browser: a fixed array of records, each with *)
(* the callbacks CEF is given, over pages that CEF opens and closes on its *)
(* own, under views that hold a handle, the number of a record.  All of it *)
(* runs on the thread of the user interface: CEF calls back only while the *)
(* host turns its message loop, which a view does between two calls, and   *)
(* while it waits for its page to go (Destroy) or for all of them          *)
(* (Shutdown).                                                             *)
(***************************************************************************)
EXTENDS Integers, Sequences

CONSTANTS Slots,        \* records, numbered from 1 (64)
          Views,        \* CefBrowser controls
          Pages,        \* pages CEF may open
          QueueMax,     \* messages kept for a view (512)
          Policies,     \* what views do with popups: 0, 1 or 2
          Places,       \* positions of a view
          Regions,      \* visible parts of a view, each a position
          MaxSaid,      \* bound: messages of a page
          MaxSent,      \* bound: commands to a page
          MaxNav,       \* bound: navigations of a page
          None

ASSUME CefAssumption ==
    /\ Slots \in Nat \ {0} /\ QueueMax \in Nat \ {0}
    /\ Policies \subseteq 0..2 /\ None \notin Regions \cup Pages
    /\ Places \subseteq Int /\ Regions \subseteq Int
    /\ {MaxSaid, MaxSent, MaxNav} \subseteq Nat
    /\ Views \cap {"down", "ready", "closing", "shut"} = {}

VARIABLES rec,      \* the records
          view,     \* the views
          page,     \* CEF's pages: external
          running   \* "down", "ready", "closing", "shut", or a view in Destroy
cefVars == <<rec, view, page, running>>

\* A place of a ring without a message, one of the page's numbered from 1.
NoMessage == [n |-> 0, id |-> 0]

Unused == [used |-> FALSE, gone |-> FALSE, page |-> None, observed |-> FALSE,
           place |-> 0, clip |-> None, shown |-> -1, seq |-> 0, url |-> 0,
           policy |-> 0, popup |-> None, missed |-> 0,
           queue |-> [i \in 0..(QueueMax - 1) |-> NoMessage], head |-> 0,
           count |-> 0, dropped |-> 0, id |-> 0]

\* With what became of its messages and popups: "taken" and "handed" count those
\* the views took, "blank" the popups nobody was told of, and "astray" has the
\* replies that were taken and did not call their callback.
Unopened == [state |-> "none", slot |-> 0, popup |-> FALSE, held |-> 0,
             asked |-> FALSE, place |-> 0, region |-> None, shown |-> FALSE,
             url |-> 0, said |-> 0, owed |-> {}, opened |-> 0,
             taken |-> 0, astray |-> {}, handed |-> 0, blank |-> 0]

CefInit ==
    /\ rec = [s \in 1..Slots |-> Unused]
    /\ page = [p \in Pages |-> Unopened]
    /\ view \in [Views -> [handle : {0}, created : {FALSE},
                           page : {None}, clear : {TRUE},
                           seq : {0}, url : {0}, waiting : {<<>>},
                           policy : Policies]]
    /\ running = "down"

Idle == running = "ready"
Turning == running \notin {"down", "shut"}      \* the message loop may turn

\* zan_cef_init: once in the life of a process.
Start == /\ running = "down" /\ running' = "ready"
         /\ UNCHANGED <<rec, view, page>>

\* zc_get: the record a handle stands for, if it is alive.
Alive(h) == h # 0 /\ rec[h].used /\ ~rec[h].gone
Reaches(v) == Idle /\ Alive(view[v].handle)
Mine(v) == rec[view[v].handle]
PageOf(v) == Mine(v).page
IsOpen(p) == page[p].state \in {"open", "closing"}

----------------------------------------------------------------------------
(* Views.                                                                  *)

\* A record whose page has closed.
Reclaimable(s) == rec[s].gone

\* The first record that is free or may be reclaimed.
FirstFree(s) ==
    /\ ~rec[s].used \/ Reclaimable(s)
    /\ \A t \in 1..(s-1) : rec[t].used /\ ~Reclaimable(t)

\* What a record has for its page after on_after_created, if CEF called it: the
\* new page, with a reference, unless it had one.
Introduced(b, p, told) == IF told /\ b = None THEN p ELSE b

\* Faulty: the reference CEF returns is kept beside the stored one.
HeldTwice(b, p, told) == IF Introduced(b, p, told) = p THEN 2 ELSE 1

\* References kept on the new page p of a record that had b: the stored one, and
\* the one CEF returns, which is given back if anything was stored.
HeldAfter(b, p, told) ==
    (IF Introduced(b, p, told) = p THEN 1 ELSE 0)
        + (IF Introduced(b, p, told) = None THEN 1 ELSE 0)

\* No callback of a former page waits, and no view has the handle.
Unheard(v, s) == view[v].waiting = <<>> /\ \A w \in Views : view[w].handle # s

\* zan_cef_create, in the record s, of the page p.
CreateAt(v, s, p, x, told) ==
    /\ FirstFree(s) /\ page[p].state = "none"
    /\ page' = [page EXCEPT ![p] =
           [Unopened EXCEPT !.state = "open", !.slot = s, !.place = x,
                            !.shown = TRUE, !.held = HeldAfter(Unused.page, p, told)]]
    /\ rec' = [rec EXCEPT ![s] =
           [Unused EXCEPT !.used = TRUE, !.page = p, !.observed = TRUE,
                          !.place = x, !.policy = view[v].policy]]
    /\ view' = [view EXCEPT ![v] =
           [@ EXCEPT !.created = TRUE, !.handle = s, !.page = p,
                     !.clear = Unheard(v, s)]]

\* By the first frame of a view that has no page.
Create(v) ==
    /\ Idle /\ ~view[v].created
    /\ \E s \in 1..Slots, p \in Pages, x \in Places, told \in BOOLEAN :
          CreateAt(v, s, p, x, told)
    /\ UNCHANGED running

\* CEF refuses to make a page, or every record is taken.
CreateFails(v) ==
    /\ Idle /\ ~view[v].created
    /\ view' = [view EXCEPT ![v].created = TRUE]
    /\ \/ \A s \in 1..Slots : ~FirstFree(s) /\ UNCHANGED rec
       \/ \E s \in 1..Slots : FirstFree(s) /\ rec' = [rec EXCEPT ![s] = Unused]
    /\ UNCHANGED <<page, running>>

\* zan_cef_set_visible changes a window only when the state is another.
ShownTo(r, shown) == [r EXCEPT !.shown = shown]
PageShown(r, g, shown) ==
    IF r.shown = shown THEN g ELSE [g EXCEPT !.shown = (shown = 1)]

\* zan_cef_close hides the page at once and asks CEF to close it; the view
\* turns the loop until it has gone, or for so many turns.
Destroy(v) ==
    /\ Idle /\ view[v].handle # 0
    /\ IF Alive(view[v].handle)
       THEN LET h == view[v].handle
                r == rec[h]
            IN  /\ rec' = [rec EXCEPT ![h] = ShownTo(r, 0)]
                /\ page' = [page EXCEPT ![r.page] =
                               [PageShown(r, @, 0) EXCEPT !.asked = TRUE]]
                /\ running' = v
       ELSE running' = v /\ UNCHANGED <<rec, page>>
    /\ UNCHANGED view

Destroyed(v) ==
    /\ running = v /\ running' = "ready"
    /\ view' = [view EXCEPT ![v] = [@ EXCEPT !.handle = 0, !.created = FALSE]]
    /\ UNCHANGED <<rec, page>>

\* Faulty: the region built for the old position is kept.
MovedTo(r, x) == [r EXCEPT !.place = x]

\* The region was built for the old position: the next clip must build it.
Moved(r, x) == [r EXCEPT !.place = x, !.clip = None]

SetBounds(v, x) ==
    /\ Reaches(v)
    /\ rec' = [rec EXCEPT ![view[v].handle] = Moved(@, x)]
    /\ page' = [page EXCEPT ![PageOf(v)].place = x]
    /\ UNCHANGED <<view, running>>

\* The visible part of the view, or none of it.  The region of a window is
\* relative to the window and is built only when it is another.
SetClip(v, c) ==
    /\ Reaches(v)
    /\ LET r == Mine(v)
           g == page[r.page]
           built == IF c # None /\ r.clip # c
                    THEN [g EXCEPT !.region = c - r.place] ELSE g
           shown == IF c = None THEN 0 ELSE 1
       IN  /\ page' = [page EXCEPT ![r.page] = PageShown(r, built, shown)]
           /\ rec' = [rec EXCEPT ![view[v].handle] =
                  [ShownTo(r, shown) EXCEPT !.clip = IF c = None THEN @ ELSE c]]
    /\ UNCHANGED <<view, running>>

\* What a view shows of its page follows the number of changes it saw.
Poll(v) ==
    /\ Reaches(v) /\ view[v].seq # Mine(v).seq
    /\ view' = [view EXCEPT ![v] = [@ EXCEPT !.seq = Mine(v).seq,
                                             !.url = Mine(v).url]]
    /\ UNCHANGED <<rec, page, running>>

\* zan_cef_cdp_send, and the callback kept for the reply to the page.  What is
\* sent without one is answered as an event is.
Send(v) ==
    /\ Reaches(v) /\ Mine(v).id < MaxSent
    /\ LET id == Mine(v).id + 1
       IN  /\ rec' = [rec EXCEPT ![view[v].handle].id = id]
           /\ page' = [page EXCEPT ![PageOf(v)].owed = @ \cup {id}]
           /\ view' = [view EXCEPT ![v].waiting =
                          Append(@, [id |-> id, page |-> PageOf(v)])]
    /\ UNCHANGED running

Without(s, i) ==
    [k \in 1..(Len(s) - 1) |-> IF k < i THEN s[k] ELSE s[k + 1]]

\* The first callback that waits for an id, and whether one does.
Awaits(waiting, id) == \E i \in DOMAIN waiting : waiting[i].id = id
FirstFor(waiting, id) ==
    CHOOSE i \in DOMAIN waiting : /\ waiting[i].id = id
                                 /\ \A j \in 1..(i-1) : waiting[j].id # id

\* Faulty: a callback that was called stays.
AnsweredAgain(waiting, id) == waiting

\* CefCdp.Dispatch: the first callback that waits for the id of a reply is called
\* and forgotten, be it of this page or of a former one.
Answered(waiting, id) ==
    IF Awaits(waiting, id) THEN Without(waiting, FirstFor(waiting, id)) ELSE waiting

\* The reply called the callback of its own command.
Heard(waiting, id, p) ==
    Awaits(waiting, id) /\ waiting[FirstFor(waiting, id)].page = p

\* One more message of a page was taken; the reply to id went astray, or did not.
Took(g, id, lost) ==
    [g EXCEPT !.taken = @ + 1, !.astray = IF lost THEN @ \cup {id} ELSE @]

\* zan_cef_cdp_take, and what CefCdp does with the message.
TakeMessage(v) ==
    /\ Reaches(v) /\ Mine(v).count > 0
    /\ LET r == Mine(v)
           id == r.queue[r.head].id
           lost == id # 0 /\ ~Heard(view[v].waiting, id, r.page)
       IN  /\ rec' = [rec EXCEPT ![view[v].handle] =
                  [r EXCEPT !.queue[r.head] = NoMessage, !.count = @ - 1,
                            !.head = (@ + 1) % QueueMax]]
           /\ view' = [view EXCEPT ![v].waiting = Answered(@, id)]
           /\ page' = [page EXCEPT ![r.page] = Took(@, id, lost)]
    /\ UNCHANGED running

TakePopup(v) ==
    /\ Reaches(v) /\ view[v].policy = 2 /\ Mine(v).popup # None
    /\ rec' = [rec EXCEPT ![view[v].handle].popup = None]
    /\ page' = [page EXCEPT ![PageOf(v)].handed = @ + 1]
    /\ UNCHANGED <<view, running>>

----------------------------------------------------------------------------
(* Calls of CEF into the record whose callbacks the page was given.        *)

Tell(p, r) == rec' = [rec EXCEPT ![page[p].slot] = r]
Told(p) == rec[page[p].slot]

\* Faulty: with the ring full the oldest message is overwritten in place.
PushOver(r, m) ==
    [r EXCEPT !.queue[(r.head + r.count) % QueueMax] = m,
              !.count = IF @ = QueueMax THEN @ ELSE @ + 1,
              !.dropped = IF r.count = QueueMax THEN @ + 1 ELSE @]

\* A full ring drops its oldest message.
Push(r, m) ==
    LET full == r.count = QueueMax
        h == IF full THEN (r.head + 1) % QueueMax ELSE r.head
        n == IF full THEN r.count - 1 ELSE r.count
    IN  [r EXCEPT !.queue[(h + n) % QueueMax] = m, !.head = h,
                  !.count = n + 1,
                  !.dropped = IF full THEN @ + 1 ELSE @]

\* An event, or the reply to a command, of the page the observer was put on.
Says(p) ==
    /\ Turning /\ IsOpen(p) /\ Told(p).page = p /\ Told(p).observed
    /\ page[p].said < MaxSaid
    /\ \E id \in {0} \cup page[p].owed :
          /\ page' = [page EXCEPT ![p].said = @ + 1, ![p].owed = @ \ {id}]
          /\ Tell(p, Push(Told(p), [n |-> page[p].said + 1, id |-> id]))
    /\ UNCHANGED <<view, running>>

\* on_address_change; the start, the end and an error of a load count as well.
Address(r, url) == [r EXCEPT !.url = url, !.seq = @ + 1]

Navigates(p) ==
    /\ Turning /\ IsOpen(p) /\ page[p].url < MaxNav
    /\ page' = [page EXCEPT ![p].url = @ + 1]
    /\ Tell(p, Address(Told(p), page[p].url + 1))
    /\ UNCHANGED <<view, running>>

\* Faulty: a pending popup gives way to a new one.
HandedLatest(r, u) == [r EXCEPT !.popup = u]

\* on_before_popup with policy 2: one popup waits for the host, others count.  It
\* waits if its URL is not empty: of one without (None) nothing is kept.
Handed(r, u) ==
    IF r.popup # None THEN [r EXCEPT !.missed = @ + 1]
    ELSE [r EXCEPT !.popup = u]

\* One more popup of a page; nobody is told of a blank one.
Opened(g, blank) ==
    [g EXCEPT !.opened = @ + 1, !.blank = IF blank THEN @ + 1 ELSE @]

\* A popup: CEF opens it with the callbacks of its opener, or the host gets it.
\* on_after_created stores a page only in a record that has none.
OpensPopup(p) ==
    /\ Turning /\ page[p].state = "open" /\ page[p].opened < 2
    /\ LET r == Told(p)
           s == page[p].slot
       IN  \/ /\ r.policy = 0
              /\ \E q \in Pages :
                    /\ page[q].state = "none"
                    /\ page' = [page EXCEPT
                           ![q] = [Unopened EXCEPT !.state = "open",
                               !.slot = s, !.popup = TRUE, !.shown = TRUE,
                               !.held = IF r.page = None THEN 1 ELSE 0],
                           ![p].opened = @ + 1]
                    /\ Tell(p, [r EXCEPT !.page = IF @ = None THEN q ELSE @])
           \/ r.policy = 1 /\ page' = [page EXCEPT ![p].opened = @ + 1]
                           /\ UNCHANGED rec
           \/ /\ r.policy = 2
              /\ \E u \in {p, None} :
                    /\ page' = [page EXCEPT ![p] =
                           Opened(@, r.popup = None /\ u = None)]
                    /\ Tell(p, Handed(r, u))
    /\ UNCHANGED <<view, running>>

\* do_close: asked for, or a page or its user closes it.
DoClose(p) ==
    /\ Turning /\ page[p].state = "open"
    /\ page' = [page EXCEPT ![p].state = "closing"]
    /\ UNCHANGED <<rec, view, running>>

\* on_before_close, the last call of a page: the record is gone, and what it
\* holds of its page is given back.
BeforeClose(p) ==
    /\ Turning /\ page[p].state = "closing"
    /\ LET r == Told(p)
           closed == [page EXCEPT ![p] =
                          [Unopened EXCEPT !.state = "closed", !.held = page[p].held,
                                           !.popup = page[p].popup]]
       IN  /\ Tell(p, [r EXCEPT !.gone = TRUE, !.observed = FALSE,
                                !.page = None])
           /\ page' = IF r.page = None THEN closed
                      ELSE [closed EXCEPT ![r.page].held = @ - 1]
    /\ UNCHANGED <<view, running>>

\* zan_cef_shutdown asks every page it has a record of to close and turns the
\* loop for a while; CEF then ends whatever is left.
Shutdown ==
    /\ Idle /\ running' = "closing"
    /\ page' = [p \in Pages |->
           IF \E s \in 1..Slots : Alive(s) /\ rec[s].page = p
           THEN [page[p] EXCEPT !.asked = TRUE] ELSE page[p]]
    /\ UNCHANGED <<rec, view>>
ShutdownEnds ==
    /\ running = "closing" /\ running' = "shut"
    /\ UNCHANGED <<rec, view, page>>

ViewNext(v) ==
    \/ Create(v) \/ CreateFails(v) \/ Destroy(v) \/ Destroyed(v)
    \/ \E x \in Places : SetBounds(v, x)
    \/ \E c \in Regions \cup {None} : SetClip(v, c)
    \/ Poll(v) \/ Send(v) \/ TakeMessage(v) \/ TakePopup(v)
PageNext(p) ==
    \/ Says(p) \/ Navigates(p) \/ OpensPopup(p) \/ DoClose(p) \/ BeforeClose(p)
CefNext ==
    \/ \E v \in Views : ViewNext(v)
    \/ \E p \in Pages : PageNext(p)
    \/ Start \/ Shutdown \/ ShutdownEnds
CefSpec == CefInit /\ [][CefNext]_cefVars

----------------------------------------------------------------------------
\* CEF has opened no window of its own, which shares the callbacks of another.
Alone == \A p \in Pages : ~page[p].popup

\* A view that has the page it made, and made it with no callbacks of a former
\* page waiting and no other view holding the same handle.  Neither is a matter
\* of course.  Destroy leaves CefCdp its callbacks, and the commands of the next
\* page are numbered from 1 again; and a view whose page closed by itself keeps
\* its handle, which reaches the page of whoever is given the record next.
Owner(v) == /\ Alive(view[v].handle) /\ PageOf(v) = view[v].page
            /\ view[v].clear

\* A page that is open is the page of some view, or is on its way out: no page
\* stays on the window of the host with nobody to close it, whatever records
\* are given back and reused meanwhile.
NoStrayPage ==
    (Alone /\ running # "shut") =>
        \A p \in Pages : page[p].state = "open" =>
            \/ page[p].asked
            \/ \E v \in Views : /\ Alive(view[v].handle) /\ PageOf(v) = p

\* The driver keeps one reference on the page of a record, and none on a page
\* that has closed.
OneReference ==
    Alone => \A p \in Pages :
        page[p].held = IF \E s \in 1..Slots : rec[s].page = p THEN 1 ELSE 0

\* zan_cef_create, zan_cef_close and zc_on_before_close give every page an owner
\* and exactly one reference, until it is closed.
PagesOwned == NoStrayPage /\ OneReference

\* zc_queue_push and zan_cef_cdp_take: what is queued is the latest messages of
\* the page in their order, and every message was taken by some view, is queued
\* or is counted as dropped.
QueueInOrder ==
    \A s \in 1..Slots : (Alive(s) /\ rec[s].observed) =>
        LET r == rec[s]
            g == page[r.page]
        IN  /\ \A i \in 0..(r.count - 1) :
                   r.queue[(r.head + i) % QueueMax].n = g.said - r.count + 1 + i
            /\ g.taken + r.dropped + r.count = g.said

\* Set_bounds, set_clip and set_visible skip work the window does not need: the
\* region of a window is the one asked for at its present position, and it is
\* shown or hidden as was asked last.
ClipInForce ==
    \A s \in 1..Slots : (Alive(s) /\ rec[s].page # None) =>
        LET r == rec[s]
            g == page[r.page]
        IN  /\ r.clip # None => g.place = r.place /\ g.region = r.clip - r.place
            /\ r.shown # -1 => g.shown = (r.shown = 1)

\* No page but the record's own calls into it.
Sole(s) == \A p \in Pages : IsOpen(p) /\ page[p].slot = s => rec[s].page = p

\* Policy 2: every popup of a page was handed to a host, waits for one, is counted
\* as missed, or had no URL and came when none waited: of those nobody is told.
\* Unless a page of a former view calls into the same record.
PopupsAccounted ==
    \A s \in 1..Slots : (Alive(s) /\ rec[s].policy = 2 /\ Sole(s)) =>
        LET g == page[rec[s].page] IN
            g.opened = g.handed + rec[s].missed + g.blank
                           + (IF rec[s].popup = None THEN 0 ELSE 1)

\* A callback that waits for a reply of an open page, in whatever view: the reply
\* is to come, is queued, or was taken and called another callback or none.
ReplyToCome ==
    \A s \in 1..Slots : (Alive(s) /\ rec[s].observed /\ rec[s].dropped = 0) =>
        \A v \in Views : \A i \in DOMAIN view[v].waiting :
            LET c == view[v].waiting[i]
                r == rec[s]
                g == page[r.page]
            IN  c.page = r.page =>
                    \/ c.id \in g.owed \cup g.astray
                    \/ \E k \in 0..(r.count - 1) :
                           r.queue[(r.head + k) % QueueMax].id = c.id

\* Every reply taken so far called its own callback.
AllHeard(p) == page[p].astray = {}

\* CefCdp: no reply is lost on the way to its callback while none is dropped, and
\* none calls another in a view that made its page clear of former ones.
WaitersAnswered ==
    /\ ReplyToCome
    /\ \A v \in Views : Owner(v) => AllHeard(PageOf(v))

\* What CefCdp.Send says of its callback, of all pages: it is called once when the
\* reply arrives, with the result of that reply.
RepliesHeard == \A p \in Pages : AllHeard(p)

\* What the code says of its records: one outlives the references of CEF to
\* its callbacks and is given to another page only when its page has closed.
RecordOutlives ==
    \A p, q \in Pages :
        (p # q /\ IsOpen(p) /\ IsOpen(q) /\ ~page[p].popup /\ ~page[q].popup)
            => page[p].slot # page[q].slot
=============================================================================

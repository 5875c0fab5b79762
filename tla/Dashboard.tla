------------------------------ MODULE Dashboard -----------------------------
(***************************************************************************)
(* The dashboard (rentals/views.py, rentals/forms.py): browsers that       *)
(* double-click, go back, refresh, send again what got no answer or tamper *)
(* with the key in a form, and the workers that handle what they post.     *)
(* Every form is shown with a key of its own, but comes back filled in any *)
(* way and with any key.  A call that writes is one step here: the desk    *)
(* behind the views is the atomic one that PostgresDesk implements.  A     *)
(* check of availability, which takes no lock, is the steps of the code.   *)
(***************************************************************************)
EXTENDS Desk

CONSTANTS
    InitialFleets,   \* the fleets before the first request
    FleetSizes,      \* the sizes staff may set
    MaxPosts,        \* bound: requests posted
    MaxNow           \* bound: how far the clock runs

\* A key that no form was issued and IdempotencyKey does not take.
Malformed == "malformed"

ASSUME DashboardAssumption ==
    /\ Malformed \notin Keys
    /\ InitialFleets \subseteq [CarTypes -> Nat \cup {NoFleet}]
    /\ FleetSizes \subseteq Nat
    /\ MaxPosts \in Nat
    /\ MaxNow \in Nat

VARIABLES
    now, fleet, rows, nextId,
    forms,       \* the keys each browser's forms have had, issued or made up
    posts,       \* requests posted so far
    pc,          \* what each worker is about to do
    req,         \* the request it works on
    answer,      \* what the desk answered
    told,        \* the booking that goes with the answer
    size,        \* the fleet size a check has read
    page,        \* what each browser shows
    submitted,   \* history: the booking forms submitted
    late,        \* history: workers handed a form whose booking had been cancelled
    calm,        \* history: checks during which neither fleets nor the clock moved
    advice       \* history: the answers of calm checks, until the world changes

world == <<now, fleet, rows, nextId>>
desk == <<answer, told>>
history == <<submitted, late, calm, advice>>
vars == <<world, forms, posts, pc, req, desk, size, page, history>>

\* What a browser sends: the key is a hidden field, which anyone can edit.
Post == [customer : Customers, carType : CarTypes, period : Periods, key : Keys \cup {Malformed}]

Page == [says : {"", "Booked", "AlreadyMade", "NothingBooked", "AlreadyUsed", "Error"},
         asked : Post \cup {NoRequest}, late : BOOLEAN, key : Keys \cup {Malformed, "none"}]

Blank == [says |-> "", asked |-> NoRequest, late |-> FALSE, key |-> "none"]

TypeOK ==
    /\ now \in Nat
    /\ fleet \in [CarTypes -> Nat \cup {NoFleet}]
    /\ rows \subseteq BookingRecord
    /\ nextId \in Nat
    /\ forms \in [Customers -> SUBSET Keys]
    /\ posts \in Nat
    /\ pc \in [Workers -> {"idle", "book_form", "reserve", "cancel", "render",
                           "check_form", "check_policy", "read_fleet", "read_rows"}]
    /\ req \in [Workers -> Post \cup CancelRequest \cup {NoRequest}]
    /\ answer \in [Workers -> Answers \cup {"none"}]
    /\ told \in [Workers -> BookingRecord \cup {NoBooking}]
    /\ size \in [Workers -> Nat]
    /\ page \in [Customers -> Page]
    /\ submitted \subseteq Post
    /\ late \subseteq Workers
    /\ calm \subseteq Workers
    /\ advice \subseteq [carType : CarTypes, period : Periods, free : Nat]

Init ==
    /\ now = 0
    /\ fleet \in InitialFleets
    /\ rows = {}
    /\ nextId = 1
    /\ forms = [c \in Customers |-> {}]
    /\ posts = 0
    /\ pc = [w \in Workers |-> "idle"]
    /\ req = [w \in Workers |-> NoRequest]
    /\ answer = [w \in Workers |-> "none"]
    /\ told = [w \in Workers |-> NoBooking]
    /\ size = [w \in Workers |-> 0]
    /\ page = [c \in Customers |-> Blank]
    /\ submitted = {} /\ late = {} /\ calm = {} /\ advice = {}

-----------------------------------------------------------------------------
Goto(w, from, to) == pc[w] = from /\ pc' = [pc EXCEPT ![w] = to]

\* No advice is fresh once the world has changed; a check goes on undisturbed
\* when it is only the bookings that change.
BookingsChange == advice' = {} /\ UNCHANGED <<submitted, late, calm>>
WorldChanges == calm' = {} /\ advice' = {} /\ UNCHANGED <<submitted, late>>

KeysOfForms == UNION {forms[c] : c \in Customers}

\* new_idempotency_key: a uuid that no form has carried.
NewKey(c, k) ==
    /\ k \in Keys \ KeysOfForms
    /\ forms' = [forms EXCEPT ![c] = @ \cup {k}]

\* The browser shows what its request came to, in a form with this key.
Show(w, says, k) ==
    page' = [page EXCEPT ![req[w].customer] =
                [says |-> says, asked |-> req[w], late |-> w \in late, key |-> k]]

Forget(w) == req' = [req EXCEPT ![w] = NoRequest]

-----------------------------------------------------------------------------
(* What people do in their browsers *)

\* GET of the dashboard, also where a redirect leads.
Open(c) ==
    /\ \E k \in Keys : NewKey(c, k)
    /\ UNCHANGED <<world, posts, pc, req, desk, size, page, history>>

\* Any form, filled in any way and with any key: a double click, a refresh of
\* the post, the back button, a retry while the first is still being handled, a
\* key that was tampered with.
Submit(w, action) ==
    /\ posts < MaxPosts /\ posts' = posts + 1
    /\ Goto(w, "idle", action)
    /\ \E r \in Post :
        /\ req' = [req EXCEPT ![w] = r]
        /\ forms' = IF r.key \in Keys THEN [forms EXCEPT ![r.customer] = @ \cup {r.key}]
                    ELSE forms
        /\ late' = IF \E b \in rows : IsAbout(b, r) /\ IsCancelled(b)
                   THEN late \cup {w} ELSE late \ {w}
        /\ submitted' = IF action = "book_form" THEN submitted \cup {r} ELSE submitted
    /\ UNCHANGED <<world, desk, size, page, calm, advice>>

\* The button next to a reservation, which need not be up to date, or any
\* number in its address: another's reservation, or one there never was.
SubmitCancel(w) ==
    /\ posts < MaxPosts /\ posts' = posts + 1
    /\ Goto(w, "idle", "cancel")
    /\ \E c \in Customers : \E i \in 1 .. nextId :
        req' = [req EXCEPT ![w] = [actor |-> c, id |-> i]]
    /\ UNCHANGED <<world, forms, desk, size, page, history>>

-----------------------------------------------------------------------------
(* dashboard(), action "check" *)

\* The form offers the car types there are: ModelChoiceField.
FormValid(w) == fleet[req[w].carType] # NoFleet

\* Of the malformed keys, the form itself refuses an empty or a very long one.
FormRefused(w) ==
    /\ pc[w] \in {"book_form", "check_form"}
    /\ ~FormValid(w) \/ req[w].key = Malformed
    /\ Show(w, "Error", req[w].key)
    /\ pc' = [pc EXCEPT ![w] = "idle"]
    /\ Forget(w)
    /\ UNCHANGED <<world, forms, posts, desk, size, history>>

CheckForm(w) ==
    /\ Goto(w, "check_form", "check_policy")
    /\ FormValid(w)
    /\ calm' = calm \cup {w}
    /\ UNCHANGED <<world, forms, posts, req, desk, size, page, submitted, late, advice>>

\* What a check that nothing disturbed has said; a refusal says that none is free.
Advise(w, n) ==
    /\ advice' = IF w \in calm
                 THEN advice \cup {[carType |-> req[w].carType, period |-> req[w].period,
                                    free |-> n]}
                 ELSE advice
    /\ calm' = calm \ {w}
    /\ UNCHANGED <<submitted, late>>

\* A bug: availability is counted for periods that cannot be booked.
SkipPolicy(w) ==
    /\ Goto(w, "check_policy", "read_fleet")
    /\ UNCHANGED <<world, forms, posts, req, desk, size, page, history>>

\* availability() starts with the policy that reserve() asks.
CheckPolicy(w) ==
    \/ /\ Goto(w, "check_policy", "read_fleet")
       /\ Permits(req[w].period, now)
       /\ UNCHANGED <<world, forms, posts, req, desk, size, page, history>>
    \/ /\ Goto(w, "check_policy", "idle")
       /\ ~Permits(req[w].period, now)
       /\ Show(w, "Error", req[w].key)
       /\ Advise(w, 0)
       /\ Forget(w)
       /\ UNCHANGED <<world, forms, posts, desk, size>>

\* A bug: the fleet that has gone is not noticed.
ReadAnyFleet(w) ==
    /\ Goto(w, "read_fleet", "read_rows")
    /\ size' = [size EXCEPT ![w] = fleet[req[w].carType]]
    /\ UNCHANGED <<world, forms, posts, req, desk, page, history>>

\* schedule() reads the fleet and the bookings in two statements.
ReadFleet(w) ==
    \/ /\ Goto(w, "read_fleet", "read_rows")
       /\ FormValid(w)
       /\ size' = [size EXCEPT ![w] = fleet[req[w].carType]]
       /\ UNCHANGED <<world, forms, posts, req, desk, page, history>>
    \/ /\ Goto(w, "read_fleet", "idle")
       /\ ~FormValid(w)
       /\ Show(w, "Error", req[w].key)
       /\ Forget(w)
       /\ UNCHANGED <<world, forms, posts, desk, size, history>>

Active(ct, p) ==
    {b \in rows : b.carType = ct /\ ~IsCancelled(b) /\ Overlaps(b.period, p)}

ReadRows(w) ==
    LET r == req[w] IN
    /\ Goto(w, "read_rows", "idle")
    /\ Advise(w, Remaining(size[w], Active(r.carType, r.period), r.period))
    /\ Show(w, "", r.key)
    /\ Forget(w)
    /\ size' = [size EXCEPT ![w] = 0]
    /\ UNCHANGED <<world, forms, posts, desk>>

-----------------------------------------------------------------------------
(* dashboard(), any other action, and cancel_reservation() *)

BookForm(w) ==
    /\ Goto(w, "book_form", "reserve")
    /\ FormValid(w)
    /\ UNCHANGED <<world, forms, posts, req, desk, size, page, history>>

\* The desk has answered; what it did to the bookings is the caller's to say.
Answered(w, result, b) ==
    /\ answer' = [answer EXCEPT ![w] = result]
    /\ told' = [told EXCEPT ![w] = b]
    /\ pc' = [pc EXCEPT ![w] = "render"]
    /\ UNCHANGED <<now, fleet, forms, posts, req, size, page>>

Refusal(w) ==
    LET r == req[w] IN
    IF fleet[r.carType] = NoFleet THEN "CarTypeNotFound"
    ELSE IF ~Permits(r.period, now) THEN "InvalidRentalPeriod"
    ELSE IF ~CanAccommodate(fleet[r.carType], Active(r.carType, r.period), r.period)
    THEN "NoAvailability"
    ELSE "none"

\* reserve(), which looks at the key before anything else; its answer may be
\* lost on the way.
Reserve(w) ==
    LET r == req[w]
        known == {b \in rows : IsAbout(b, r)}
        b == [id |-> nextId, customer |-> r.customer, carType |-> r.carType,
              period |-> r.period, key |-> r.key, cancelledAt |-> NotCancelled] IN
    /\ pc[w] = "reserve"
    /\ \/ /\ \/ r.key = Malformed /\ Answered(w, "InvalidIdempotencyKey", NoBooking)
             \/ /\ r.key # Malformed
                /\ \/ \E k \in known :
                        LET result == ReplayResult(k, r) IN
                        /\ fleet[r.carType] # NoFleet
                        /\ Answered(w, result, IF result = "replayed" THEN k ELSE NoBooking)
                   \/ /\ known = {} \/ fleet[r.carType] = NoFleet
                      /\ Refusal(w) # "none"
                      /\ Answered(w, Refusal(w), NoBooking)
                   \/ Answered(w, "FleetBusy", NoBooking)
             \/ Answered(w, "ServerError", NoBooking)
          /\ UNCHANGED <<rows, nextId, history>>
       \/ /\ r.key # Malformed /\ known = {} /\ Refusal(w) = "none"
          /\ Answered(w, "booked", b)
          /\ rows' = rows \cup {b}
          /\ nextId' = nextId + 1
          /\ BookingsChange

\* cancel(): one answer for a reservation that is not there and for another's.
Cancel(w) ==
    LET mine == {b \in rows : b.id = req[w].id /\ MayBeManagedBy(b, req[w].actor)} IN
    /\ pc[w] = "cancel"
    /\ \/ /\ \/ \E b \in mine : IsCancelled(b) /\ Answered(w, "cancelled", b)
             \/ /\ \E b \in mine : ~IsCancelled(b) /\ b.period.end <= now
                /\ Answered(w, "ReservationNotCancellable", NoBooking)
             \/ mine = {} /\ Answered(w, "ReservationNotFound", NoBooking)
             \/ Answered(w, "ServerError", NoBooking)
          /\ UNCHANGED <<rows, history>>
       \/ \E b \in mine :
          /\ ~IsCancelled(b) /\ now < b.period.end
          /\ Answered(w, "cancelled", Cancelled(b, now))
          /\ rows' = (rows \ {b}) \cup {Cancelled(b, now)}
          /\ BookingsChange
    /\ UNCHANGED nextId

\* The worker is free for the next request.
Done(w) ==
    /\ Goto(w, "render", "idle")
    /\ Forget(w)
    /\ answer' = [answer EXCEPT ![w] = "none"]
    /\ told' = [told EXCEPT ![w] = NoBooking]
    /\ UNCHANGED <<world, posts, size, history>>

\* A bug: a booking that has been cancelled is still "already made".
MessageUnread(result, b) == IF result = "booked" THEN "Booked" ELSE "AlreadyMade"

\* The message a redirect carries to the page it leads to.
Message(result, b) ==
    IF result = "booked" THEN "Booked"
    ELSE IF IsCancelled(b) THEN "NothingBooked" ELSE "AlreadyMade"

Redirect(w) ==
    /\ Done(w)
    /\ answer[w] \in {"booked", "replayed"}
    /\ \E k \in Keys :
        /\ NewKey(req[w].customer, k)
        /\ Show(w, Message(answer[w], told[w]), k)

\* A bug: the refused form keeps its key.
SameForm(w) ==
    /\ Done(w)
    /\ answer[w] \in {"IdempotencyConflict", "InvalidIdempotencyKey"}
    /\ Show(w, "AlreadyUsed", req[w].key)
    /\ UNCHANGED forms

\* _with_fresh_key
Reissue(w) ==
    /\ Done(w)
    /\ answer[w] \in {"IdempotencyConflict", "InvalidIdempotencyKey"}
    /\ \E k \in Keys :
        /\ NewKey(req[w].customer, k)
        /\ Show(w, "AlreadyUsed", k)

\* form.add_error: the form is shown again, with the key it had.
Explain(w) ==
    /\ Done(w)
    /\ answer[w] \in {"CarTypeNotFound", "InvalidRentalPeriod", "NoAvailability", "FleetBusy"}
    /\ Show(w, "Error", req[w].key)
    /\ UNCHANGED forms

\* A server error, an answer that is lost, and every answer to a cancellation:
\* the form stays as it was in the browser.
ShowNoForm(w) == Done(w) /\ UNCHANGED <<forms, page>>

-----------------------------------------------------------------------------
SetFleet(ct) ==
    /\ \E n \in FleetSizes \ {fleet[ct]} : fleet' = [fleet EXCEPT ![ct] = n]
    /\ WorldChanges
    /\ UNCHANGED <<now, rows, nextId, forms, posts, pc, req, desk, size, page>>

\* PROTECT: a type that was ever booked stays.
DeleteFleet(ct) ==
    /\ FleetSizes # {} /\ fleet[ct] # NoFleet
    /\ \A b \in rows : b.carType # ct
    /\ fleet' = [fleet EXCEPT ![ct] = NoFleet]
    /\ WorldChanges
    /\ UNCHANGED <<now, rows, nextId, forms, posts, pc, req, desk, size, page>>

Tick ==
    /\ now < MaxNow
    /\ now' = now + 1
    /\ WorldChanges
    /\ UNCHANGED <<fleet, rows, nextId, forms, posts, pc, req, desk, size, page>>

\* Every post the bound allows has been answered.
Terminated ==
    /\ posts = MaxPosts
    /\ \A w \in Workers : pc[w] = "idle"
    /\ UNCHANGED vars

Next ==
    \/ \E c \in Customers : Open(c)
    \/ \E w \in Workers :
        \/ Submit(w, "book_form") \/ Submit(w, "check_form") \/ SubmitCancel(w)
        \/ FormRefused(w) \/ CheckForm(w) \/ CheckPolicy(w) \/ ReadFleet(w) \/ ReadRows(w)
        \/ BookForm(w) \/ Reserve(w) \/ Cancel(w)
        \/ Redirect(w) \/ Reissue(w) \/ Explain(w) \/ ShowNoForm(w)
    \/ \E ct \in CarTypes : SetFleet(ct) \/ DeleteFleet(ct)
    \/ Tick
    \/ Terminated

Spec == Init /\ [][Next]_vars

-----------------------------------------------------------------------------
BookingOf(r) == {b \in rows : IsAbout(b, r)}

\* What a page says of a booking is true: the customer has the booking that was
\* asked for, never an older one in silence, and nobody is told that a booking
\* stands that had been cancelled when the form was sent.
MessagesAreTrue ==
    \A c \in Customers :
        LET p == page[c] IN
        /\ p.says \in {"Booked", "AlreadyMade"} =>
              /\ \E b \in BookingOf(p.asked) : IsFor(b, p.asked.carType, p.asked.period)
              /\ ~p.late
        /\ p.says = "NothingBooked" => \E b \in BookingOf(p.asked) : IsCancelled(b)

\* A form is called "already used" only if its key was submitted before for
\* another booking, or if it was tampered with and is no key at all; and the
\* form that is shown instead has a key that is well formed, was never submitted
\* and is on no booking, so that sending it as the page asks is not refused again.
SpentFormsAreReissued ==
    [][\A c \in Customers :
        LET p == page'[c] IN
        p # page[c] /\ p.says = "AlreadyUsed" =>
            /\ \/ p.asked.key = Malformed
               \/ \E r \in submitted : r.customer = c /\ r.key = p.asked.key /\ r # p.asked
            /\ p.key \in Keys
            /\ \A r \in submitted : r.key # p.key
            /\ \A b \in rows : b.key # p.key]_vars

\* A check agrees with the booking it advises, although it reads the fleet and
\* the bookings in two statements and takes no lock: whatever was booked or
\* cancelled while it ran, so long as nothing has changed since it answered, a
\* new form for the same period books if cars were said to be free, and is
\* refused if none were.
AdviceHolds ==
    [][\A w \in Workers : \A a \in advice :
         ( /\ pc[w] = "reserve" /\ pc'[w] = "render"
           /\ a.carType = req[w].carType /\ a.period = req[w].period
           /\ req[w].key # Malformed /\ BookingOf(req[w]) = {} )
         => answer'[w] \in {"FleetBusy", "ServerError",
                            IF a.free > 0 THEN "booked" ELSE "NoAvailability",
                            IF a.free > 0 THEN "booked" ELSE "InvalidRentalPeriod"}]_vars
=============================================================================

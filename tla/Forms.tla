------------------------------- MODULE Forms -------------------------------
(***************************************************************************)
(* The forms a contact and an event are edited with (internal/web), over   *)
(* the services that keep them (internal/contacts, internal/calendar)      *)
(* while phones write the same collection over CardDAV and CalDAV.         *)
(*                                                                         *)
(* A form is drawn from what is stored; on save the handler reads what is  *)
(* stored again, applies to THAT what differs from a form drawn of it, and *)
(* writes it in a transaction that asks for the ETag the form was drawn    *)
(* with.  An ETag is a digest of the bytes: here, the document itself.     *)
(* Tokens, tombstones and isolation are Sync's; a transaction is one step. *)
(*                                                                         *)
(* Of a card, "note" stands for the texts that are shown one by one, "tel" *)
(* for the lists of numbers, emails and addresses, "kept" for everything   *)
(* that no form shows: the photograph, X- properties, alarms, attendees.   *)
(***************************************************************************)
EXTENDS Integers, Sequences, FiniteSetsExt, SequencesExt

CONSTANTS
  Tabs,        \* browser tabs
  PhoneNames,  \* the names phones write under
  Uids,        \* and the UIDs
  Shapes,      \* kind -> what phones write, without uid and kept
  Typing,      \* kind -> field -> what a user types into it
  Stamped,     \* every phone write differs from every earlier one (REV, DTSTAMP)
  MaxWrites,   \* requests of phones
  MaxSaves,    \* saves of all tabs
  MaxTyped     \* fields a user changes in one form

VARIABLES
  kind,        \* "contact" or "event"
  place,       \* the collection: [default, exists]
  docs,        \* name -> document, for the names there are
  tab,         \* tab -> its form, and its save while one runs
  writes, saves

formVars == <<kind, place, docs, tab, writes, saves>>

Idle == [step |-> "idle", name |-> "", etag |-> <<>>, form |-> <<>>, blank |-> FALSE,
         typed |-> <<>>, doc |-> <<>>]

\* The name of what a tab creates; it and the UID, here 0, are random in the
\* code.
Minted == "web"

Init ==
  /\ kind \in {"contact", "event"}
  /\ place \in {[default |-> TRUE, exists |-> FALSE], [default |-> FALSE, exists |-> TRUE]}
  /\ docs = <<>>
  /\ tab = [t \in Tabs |-> Idle]
  /\ writes = 0 /\ saves = 0
-----------------------------------------------------------------------------
(* A contact and its form.  Names are sequences of words.                  *)

PhoneKinds == {"cell", "home", "work", "fax"}

\* The first type that is a kind.
kindOf(tel) ==
  LET at == {k \in DOMAIN tel.types : tel.types[k] \in PhoneKinds}
  IN IF at = {} THEN "" ELSE tel.types[Min(at)]

setKind(tel, new) ==
  [tel EXCEPT !.types = SelectSeq(@, LAMBDA t : t \notin PhoneKinds)
                        \o (IF new \in PhoneKinds THEN <<new>> ELSE <<>>)]

composedName(f) == IF f.given \o f.family # <<>> THEN f.given \o f.family ELSE f.org

contactFormOf(card) ==
  [given |-> IF card.n = <<>> THEN card.fn ELSE card.n[1],
   family |-> IF card.n = <<>> THEN <<>> ELSE card.n[2],
   org |-> IF card.org = <<>> THEN <<>> ELSE card.org[1],
   note |-> card.note,
   rows |-> [i \in DOMAIN card.tel |-> [index |-> i, value |-> card.tel[i].value, kind |-> kindOf(card.tel[i])]]]

checkContact(f, shown) == f.given # <<>> \/ f.family # <<>> \/ f.org # <<>>

\* A row is the stored field it came from, or a new one.  The index is into
\* what is stored when the form comes back.
applyValues(stored, rows, shown) ==
  LET Field(row) ==
        LET old == row.index \in DOMAIN stored
            was == IF old THEN shown[row.index] ELSE [index |-> 0, value |-> "", kind |-> ""]
            fd  == IF old THEN stored[row.index] ELSE [value |-> "", uri |-> FALSE, types |-> <<>>]
            set == IF row.value # was.value THEN [fd EXCEPT !.value = row.value, !.uri = FALSE] ELSE fd
        IN IF row.kind # was.kind THEN setKind(set, row.kind) ELSE set
  IN [k \in DOMAIN rows |-> Field(rows[k])]

applyOrg(card, f, shown) ==
  IF f.org = shown.org THEN card.org
  ELSE IF f.org = <<>> THEN <<>>
  ELSE IF card.org = <<>> THEN <<f.org>>
  ELSE [card.org EXCEPT ![1] = f.org]

applyToContact(card, f, shown) ==
  LET named == f.given # shown.given \/ f.family # shown.family
  IN [card EXCEPT
        !.n = IF named THEN <<f.given, f.family>> ELSE @,
        !.fn = IF named \/ @ = <<>> \/ (f.org # shown.org /\ @ = composedName(shown)) THEN composedName(f) ELSE @,
        !.org = applyOrg(card, f, shown),
        !.note = f.note,
        !.tel = applyValues(card.tel, f.rows, shown.rows)]

newContact == [uid |-> 0, kept |-> 0, n |-> <<<<>>, <<>>>>, fn |-> <<>>, org |-> <<>>, note |-> "", tel |-> <<>>]
-----------------------------------------------------------------------------
(* An event and its form.  A timed event is stored to the half minute and  *)
(* shown to the minute; an all-day one ends the day after the last it      *)
(* covers and is shown ending on it.                                       *)

eventFormOf(ev) ==
  [summary |-> ev.summary, allDay |-> ev.allDay,
   start |-> IF ev.allDay THEN ev.start ELSE ev.start \div 2,
   end |-> IF ev.allDay THEN Max({ev.end, ev.start + 1}) - 1 ELSE ev.end \div 2]

checkEvent(f, shown, ev) ==
  /\ f.summary # ""
  /\ ev.rule => f.allDay = shown.allDay
  /\ f.end >= f.start

SameWhen(f, shown) == f.allDay = shown.allDay /\ f.start = shown.start /\ f.end = shown.end

\* The zone an event was written in is kept, unless it becomes a date.
applyToEvent(ev, f, shown) ==
  IF SameWhen(f, shown) THEN [ev EXCEPT !.summary = f.summary]
  ELSE [ev EXCEPT !.summary = f.summary, !.allDay = f.allDay,
                  !.start = IF f.allDay THEN f.start ELSE 2 * f.start,
                  !.end = IF f.allDay THEN f.end + 1 ELSE 2 * f.end,
                  !.zone = IF f.allDay THEN "" ELSE IF ev.allDay THEN "UTC" ELSE @]

touch(ev, revised) == IF revised THEN [ev EXCEPT !.sequence = @ + 1] ELSE ev

newEvent == [uid |-> 0, kept |-> 0, summary |-> "", allDay |-> FALSE, start |-> 0, end |-> 0,
             zone |-> "UTC", sequence |-> 0, rule |-> FALSE]
newEventForm == [summary |-> "", allDay |-> FALSE, start |-> 9, end |-> 10]
nothingShown == [summary |-> "", allDay |-> FALSE, start |-> -1, end |-> -1]
-----------------------------------------------------------------------------
(* The services.  The default collection is made by whoever looks first.   *)

FormOf(doc) == IF kind = "contact" THEN contactFormOf(doc) ELSE eventFormOf(doc)

ensure == IF place.default THEN place' = [place EXCEPT !.exists = TRUE] ELSE UNCHANGED place
Found == place.default \/ place.exists
Stored(name) == Found /\ name \in DOMAIN docs

UidIsFree(name, uid) == \A other \in DOMAIN docs \ {name} : docs[other].uid # uid

\* An upsert by name.  What the transaction refuses leaves no trace.
Store(name, doc) == docs' = (name :> doc) @@ docs

checkConditions(cond, name) ==
  CASE cond = "If-None-Match: *" -> name \notin DOMAIN docs
    [] cond = "If-Match" -> name \in DOMAIN docs       \* of the document there is; another's is refused
    [] cond = "" -> TRUE

PhonePut(name) ==
  \E shape \in Shapes[kind], uid \in Uids, cond \in {"", "If-Match", "If-None-Match: *"}, rev \in 0..MaxWrites :
    /\ writes < MaxWrites /\ Found
    /\ Stamped => rev = writes + 1
    /\ checkConditions(cond, name) /\ UidIsFree(name, uid)
    /\ Store(name, shape @@ [uid |-> uid, kept |-> rev])
    /\ ensure
    /\ writes' = writes + 1
    /\ UNCHANGED <<kind, tab, saves>>

\* A refusal makes the default collection all the same.
PhoneRefused(name) ==
  \E uid \in Uids, cond \in {"", "If-Match", "If-None-Match: *"} :
    /\ place.default /\ ~place.exists
    /\ ~(checkConditions(cond, name) /\ UidIsFree(name, uid))
    /\ ensure
    /\ UNCHANGED <<kind, docs, tab, writes, saves>>

\* DELETE of CardDAV and CalDAV, and the button of the form: none of them
\* asks for an ETag.
Delete(name) ==
  /\ writes < MaxWrites /\ Stored(name)
  /\ docs' = [n \in DOMAIN docs \ {name} |-> docs[n]]
  /\ writes' = writes + 1
  /\ ensure
  /\ UNCHANGED <<kind, tab, saves>>

\* A collection goes with what is in it; the default one stays.
DeleteCollection ==
  /\ writes < MaxWrites /\ ~place.default /\ place.exists
  /\ place' = [place EXCEPT !.exists = FALSE]
  /\ docs' = <<>>
  /\ writes' = writes + 1
  /\ UNCHANGED <<kind, tab, saves>>

CreateCollection ==
  /\ writes < MaxWrites /\ ~place.exists
  /\ place' = [place EXCEPT !.exists = TRUE]
  /\ writes' = writes + 1
  /\ UNCHANGED <<kind, docs, tab, saves>>
-----------------------------------------------------------------------------
(* A tab.                                                                  *)

\* withBlankRows: every drawn form has a row to fill; a posted one that is
\* drawn again has not, unless "add" asked for it.
EditForm(t, name) ==
  /\ tab[t] = Idle /\ saves < MaxSaves /\ Stored(name)
  /\ tab' = [tab EXCEPT ![t] = [Idle EXCEPT !.step = "form", !.name = name, !.etag = <<docs[name]>>,
                                            !.form = FormOf(docs[name]), !.blank = kind = "contact"]]
  /\ ensure
  /\ UNCHANGED <<kind, docs, writes, saves>>

NewForm(t) ==
  /\ tab[t] = Idle /\ saves < MaxSaves /\ Found
  /\ Minted \notin DOMAIN docs
  /\ tab' = [tab EXCEPT ![t] = [Idle EXCEPT !.step = "form", !.blank = kind = "contact",
               !.form = IF kind = "contact" THEN contactFormOf(newContact) ELSE newEventForm]]
  /\ ensure
  /\ UNCHANGED <<kind, docs, writes, saves>>

\* What typing does to a form.  A row emptied does not come back with it.
RowsOf(f, key, to) ==
  SelectSeq([k \in DOMAIN f.rows |->
               IF f.rows[k].index # key[2] THEN f.rows[k]
               ELSE IF key[1] = "tel" THEN [f.rows[k] EXCEPT !.value = to] ELSE [f.rows[k] EXCEPT !.kind = to]],
            LAMBDA row : row.value # "")

HasRow(f, index) == \E k \in DOMAIN f.rows : f.rows[k].index = index

Type(t) ==
  \E key \in DOMAIN Typing[kind] : \E to \in Typing[kind][key] :
    LET f == tab[t].form
        isRow == key[1] \in {"tel", "type"}
        fills == key = <<"tel", 0>> /\ ~HasRow(f, 0)
    IN /\ tab[t].step = "form"
       /\ Cardinality(DOMAIN tab[t].typed \cup {key}) <= MaxTyped
       /\ isRow => IF fills THEN tab[t].blank /\ to # "" ELSE HasRow(f, key[2])
       /\ tab' = [tab EXCEPT
            ![t].typed = IF key = <<"tel", 0>> /\ to = "" THEN [k \in DOMAIN @ \ {key, <<"type", 0>>} |-> @[k]]
                         ELSE (key :> to) @@ @,
            ![t].blank = @ /\ ~fills,
            ![t].form =
              CASE fills -> [f EXCEPT !.rows = Append(@, [index |-> 0, value |-> to, kind |-> ""])]
                [] isRow /\ ~fills -> [f EXCEPT !.rows = RowsOf(f, key, to)]
                [] ~isRow -> [f EXCEPT ![key[1]] = to]]
       /\ UNCHANGED <<kind, place, docs, writes, saves>>

\* "add": what was posted comes back with one more row.
AddRow(t) ==
  /\ tab[t].step = "form" /\ kind = "contact"
  /\ tab' = [tab EXCEPT ![t].blank = TRUE]
  /\ UNCHANGED <<kind, place, docs, writes, saves>>

Back(t) == tab' = [tab EXCEPT ![t] = Idle]
Again(t) == tab' = [tab EXCEPT ![t].step = "form", ![t].blank = FALSE, ![t].doc = <<>>]

\* The document a save starts from, the one shown of it, and what becomes of it.
Apply(t, doc) ==
  LET f == tab[t].form
      new == tab[t].name = ""
  IN IF kind = "contact" THEN applyToContact(doc, f, contactFormOf(doc))
     ELSE touch(applyToEvent(doc, f, IF new THEN nothingShown ELSE eventFormOf(doc)), ~new)

Sound(t, doc) ==
  LET f == tab[t].form
  IN IF kind = "contact" THEN checkContact(f, contactFormOf(doc)) ELSE checkEvent(f, eventFormOf(doc), doc)

\* An event as it was shown is not written; a contact is.
Unchanged(t, doc) ==
  kind = "event" /\ tab[t].name # "" /\ applyToEvent(doc, tab[t].form, eventFormOf(doc)) = doc

\* saveContact and saveEvent up to the write: the stored document is read,
\* missing (409), the form refused (400), or applied.
Save(t) ==
  LET new == tab[t].name = ""
      doc == IF ~new THEN docs[tab[t].name] ELSE IF kind = "contact" THEN newContact ELSE newEvent
  IN /\ tab[t].step = "form" /\ saves < MaxSaves
     /\ saves' = saves + 1
     /\ ensure
     /\ IF new /\ ~Found THEN Back(t)
        ELSE IF ~new /\ ~Stored(tab[t].name) THEN Again(t)
        ELSE IF ~Sound(t, doc) THEN Again(t)
        ELSE IF Unchanged(t, doc) THEN Back(t)
        ELSE tab' = [tab EXCEPT ![t].step = "put", ![t].doc = Apply(t, doc), ![t].name = IF new THEN Minted ELSE @]
     /\ UNCHANGED <<kind, docs, writes>>

\* Mutant: the ETag of the read before, and not of the form, is the condition.
MayPutAnyhow(t) == (tab[t].name \in DOMAIN docs) = (tab[t].etag # <<>>)

\* The precondition of the form, asked inside the transaction.
MayPut(t) ==
  LET exists == tab[t].name \in DOMAIN docs
  IN exists = (tab[t].etag # <<>>) /\ (exists => tab[t].etag = <<docs[tab[t].name]>>)

\* Put: the collection may have gone since, the document changed, the UID be
\* taken.  A contact has a formatted name.
Put(t) ==
  LET name == tab[t].name
      doc == tab[t].doc
  IN /\ tab[t].step = "put"
     /\ IF ~Found \/ (kind = "contact" /\ doc.fn = <<>>) THEN Back(t) /\ UNCHANGED docs
        ELSE IF ~MayPut(t) THEN Again(t) /\ UNCHANGED docs
        ELSE IF ~UidIsFree(name, doc.uid) THEN Back(t) /\ UNCHANGED docs
        ELSE Back(t) /\ Store(name, doc)
     /\ ensure
     /\ UNCHANGED <<kind, writes, saves>>

Next ==
  \/ \E n \in PhoneNames : PhonePut(n) \/ PhoneRefused(n)
  \/ \E n \in PhoneNames \cup {Minted} : Delete(n)
  \/ DeleteCollection \/ CreateCollection
  \/ \E t \in Tabs :
       \/ \E n \in PhoneNames : EditForm(t, n)
       \/ NewForm(t) \/ Type(t) \/ AddRow(t) \/ Save(t) \/ Put(t)

Spec == Init /\ [][Next]_formVars
-----------------------------------------------------------------------------
(* Reference: what a user means by what was typed, of the document itself. *)

Typed(t, field, now) == IF <<field>> \in DOMAIN tab[t].typed THEN tab[t].typed[<<field>>] ELSE now

MeantTel(t, card) ==
  LET typed == tab[t].typed
      Said(key, now) == IF key \in DOMAIN typed THEN typed[key] ELSE now
      Left(i) == [value |-> Said(<<"tel", i>>, card.tel[i].value),
                  uri |-> card.tel[i].uri /\ Said(<<"tel", i>>, card.tel[i].value) = card.tel[i].value,
                  types |-> IF Said(<<"type", i>>, kindOf(card.tel[i])) = kindOf(card.tel[i]) THEN card.tel[i].types
                            ELSE setKind(card.tel[i], typed[<<"type", i>>]).types]
      kind0 == Said(<<"type", 0>>, "")
      added == [value |-> Said(<<"tel", 0>>, ""), uri |-> FALSE, types |-> IF kind0 = "" THEN <<>> ELSE <<kind0>>]
  IN SelectSeq(Append([i \in DOMAIN card.tel |-> Left(i)], added), LAMBDA tel : tel.value # "")

MeantContact(t, card) ==
  LET was == contactFormOf(card)
      now == [given |-> Typed(t, "given", was.given), family |-> was.family, org |-> Typed(t, "org", was.org)]
      renamed == now.given # was.given
      ownName == card.fn # composedName(was)
  IN [uid |-> card.uid, kept |-> card.kept,
      n |-> IF renamed THEN <<now.given, now.family>> ELSE card.n,
      fn |-> IF ownName /\ ~renamed /\ card.fn # <<>> THEN card.fn ELSE composedName(now),
      org |-> IF now.org = was.org THEN card.org
              ELSE SelectSeq(<<now.org>>, LAMBDA w : w # <<>>) \o (IF now.org = <<>> \/ card.org = <<>> THEN <<>> ELSE Tail(card.org)),
      note |-> Typed(t, "note", card.note),
      tel |-> MeantTel(t, card)]

\* The two times are one field, written to the minute.
MeantEvent(t, ev, new) ==
  LET was == IF new THEN newEventForm ELSE eventFormOf(ev)
      now == [summary |-> Typed(t, "summary", was.summary), allDay |-> Typed(t, "allDay", was.allDay),
              start |-> Typed(t, "start", was.start), end |-> Typed(t, "end", was.end)]
      timed == IF now.allDay THEN [start |-> now.start, end |-> now.end + 1, zone |-> ""]
               ELSE [start |-> 2 * now.start, end |-> 2 * now.end, zone |-> IF ev.allDay THEN "UTC" ELSE ev.zone]
  IN (IF ~new /\ SameWhen(now, was) THEN <<>> ELSE timed)
       @@ [summary |-> now.summary, allDay |-> now.allDay, sequence |-> IF new THEN 0 ELSE ev.sequence + 1]
       @@ ev

\* "An edit is made to the vCard as stored, not rebuilt from the form": a save
\* that lands gives the document there is at the write what was typed into
\* the form and nothing else, whatever a phone wrote or deleted since the
\* form was drawn or since the handler read it; a new one replaces nothing
\* (contactedit.go:24 and eventedit.go:19).
SavesAreEdits ==
  [][\A t \in Tabs :
       tab[t].step = "put" /\ docs' # docs =>
         LET name == tab[t].name
             new == tab[t].etag = <<>>
             doc == IF new THEN IF kind = "contact" THEN newContact ELSE newEvent ELSE docs[name]
         IN tab'[t] = Idle =>
              /\ new = (name \notin DOMAIN docs)
              /\ docs'[name] = IF kind = "contact" THEN MeantContact(t, doc) ELSE MeantEvent(t, doc, new)]_formVars

\* A form can be sent back as it was drawn (contactedit.go, check: a card with
\* an FN and an empty N shows no name, and is refused).
DrawnFormsAreSound ==
  \A t \in Tabs : tab[t].step = "form" /\ tab[t].typed = <<>> /\ tab[t].name \in DOMAIN docs
                  /\ tab[t].etag = <<docs[tab[t].name]>> => Sound(t, docs[tab[t].name])
=============================================================================

------------------------------ MODULE Opinions ------------------------------
(***************************************************************************)
(* What db.Annotations promises, as the tests every driver passes state it *)
(* (internal/db/dbtest): each subject has an opinion, which is nothing     *)
(* until somebody says something; there are no rows to make or to prune.   *)
(* Annotations implements this module.                                     *)
(***************************************************************************)
EXTENDS Integers, FiniteSetsExt

CONSTANTS Subjects, Ratings, Times

VARIABLES
  said,     \* subject -> opinion; 0 stands for no time
  held      \* the track subjects whose file is there and is music

Nothing == [starred |-> 0, rating |-> 0, plays |-> 0, played |-> 0]

\* The plays of an album are its tracks', and are no statement of their own.
Counted(own, tracks) ==
  [s \in Subjects |->
     IF s.kind = "track" THEN own[s]
     ELSE [own[s] EXCEPT !.plays = MapThenSumSet(LAMBDA t : own[t].plays, tracks),
                         !.played = Max({0} \cup {own[t].played : t \in tracks})]]

\* The first star's time stays.
Star(s, at) ==
  /\ said' = [said EXCEPT ![s].starred = IF @ = 0 THEN at ELSE @]
  /\ UNCHANGED held

Unstar(s) ==
  /\ said' = [said EXCEPT ![s].starred = 0]
  /\ UNCHANGED held

SetRating(s, rating) ==
  /\ said' = [said EXCEPT ![s].rating = rating]
  /\ UNCHANGED held

\* Counted once, and the time of the last play only moves forward.
RecordPlay(s, at) ==
  /\ s.kind = "track"
  /\ said' = Counted([said EXCEPT ![s].plays = @ + 1, ![s].played = IF at > @ THEN at ELSE @], held)
  /\ UNCHANGED held

\* What was said of a track goes with its file and with nothing else.
Forget(s) ==
  /\ s.kind = "track"
  /\ held' = held \ {s}
  /\ said' = Counted([said EXCEPT ![s] = Nothing], held')

\* A track that is no longer music is none of the album's.
Leave(s) ==
  /\ s \in held
  /\ held' = held \ {s}
  /\ said' = Counted(said, held')

Next ==
  \E s \in Subjects :
    \/ Unstar(s) \/ Forget(s) \/ Leave(s)
    \/ \E at \in Times : Star(s, at) \/ RecordPlay(s, at)
    \/ \E rating \in Ratings : SetRating(s, rating)
=============================================================================

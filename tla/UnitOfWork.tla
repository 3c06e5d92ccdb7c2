----------------------------- MODULE UnitOfWork -----------------------------
(***************************************************************************)
(* How a request of this backend reaches the database.                     *)
(*                                                                         *)
(* Every handler runs in one SQLAlchemy session (autoflush=False,          *)
(* autocommit=False) over PostgreSQL at its default isolation level, READ  *)
(* COMMITTED.  No statement of the code takes a row lock, no table carries *)
(* a version column and no session asks for a stricter level.  A handler   *)
(* therefore                                                               *)
(*    - loads rows, and keeps what it loaded for the rest of the request;  *)
(*    - decides on the loaded values;                                      *)
(*    - commits UPDATE statements that name a row by its primary key and   *)
(*      only the columns whose value differs from the loaded one.          *)
(* Two requests that overlap see each other's writes only in the queries   *)
(* they issue after the other's commit.                                    *)
(***************************************************************************)

\* What a column holds after the commit: the assigned value when the request
\* changed the column it had loaded, otherwise whatever is stored by then.
Written(stored, loaded, assigned) ==
    IF assigned # loaded THEN assigned ELSE stored

\* The stored row after the UPDATE of a request that loaded one row and leaves
\* the other in its session.
WrittenRow(stored, loaded, assigned) ==
    [column \in DOMAIN stored |->
        Written(stored[column], loaded[column], assigned[column])]
=============================================================================

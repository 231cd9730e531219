----------------------------- MODULE MCContents -----------------------------
(***************************************************************************)
(* Instances of LibraryContent and SubsonicContent for TLC.  The service   *)
(* holds one content at a time: kind says which, and the state of the      *)
(* other one stays as it began.  Three rows have a first, a middle and a   *)
(* last one; three threads let two commands overlap a third.  A server has *)
(* at most three artists with at most two albums of at most two songs, so  *)
(* that each loop has a first, a middle and a last round, and a single     *)
(* one.                                                                    *)
(***************************************************************************)
EXTENDS LibraryContent, SubsonicContent, SequencesExt

SmallLibraries == BoundedSeq(BoundedSeq(1 .. 2, 2) \ {<<>>}, 3) \ {<<>>}

Plus(s)           == FoldSeq(LAMBDA n, m : n + m, 0, s)
SongsOf(l)        == Plus([a \in DOMAIN l |-> Plus(l[a])])
SongsTo(l, a, b)  == SongsOf(SubSeq(l, 1, a - 1)) + Plus(SubSeq(l[a], 1, b - 1))

VARIABLE kind

Symmetry == Permutations(NextThreads)

ContentsInit ==
    /\ Init /\ ServerInit
    /\ \/ kind = "library" /\ library = <<<<1>>>> /\ fetched
       \/ kind = "subsonic" /\ nowPlayingPos = 0

LibraryNext  == kind = "library" /\ Next /\ UNCHANGED <<kind, serverVars>>
SubsonicNext == kind = "subsonic" /\ ServerNext /\ UNCHANGED <<kind, vars>>

ContentsVars == <<kind, vars, serverVars>>
ContentsSpec == ContentsInit /\ [][LibraryNext \/ SubsonicNext]_ContentsVars
=============================================================================

----------------------------- MODULE Lab_proofs ------------------------------
(* Theorems about the capture of a running lab and the import of a migration  *)
(* bundle, for any processes, blueprints and bundles.                         *)
EXTENDS LabCapture, LabImport, TLAPS

-----------------------------------------------------------------------------
(* Capture                                                                    *)

\* A capture has archives of its own for parts it was asked for, and between
\* its reading and its moving it has them all.
CandidateInv ==
    \A c \in Captures :
        /\ "primary" \in wanted[c]
        /\ Held(c) \subseteq wanted[c] /\ moved[c] \subseteq wanted[c]
        /\ \A p \in Held(c) : candidate[c][p].by = c
        /\ pc[c] \in Before \cup {"idle"} => moved[c] = {}
        /\ pc[c] \in {"verify", "publish"} => wanted[c] \subseteq Held(c) \cup moved[c]
        /\ "primary" \in moved[c] => moved[c] = wanted[c]

\* While tar is at the node state it was quiet when tar began; what is not so
\* has been stirred since.
StillInv ==
    /\ \A c \in Captures :
          /\ pc[c] = "read" /\ "node" \in wanted[c] \ Held(c) => (running => stirred[c])
          /\ "node" \in Held(c) /\ candidate[c]["node"].ran => candidate[c]["node"].started
    /\ NodeStateFromQuietHost

\* One capture at a time, as long as none has met another: what it has moved is
\* in place, and without --force it has found no lab definitions.
OneInv ==
    ~overlap =>
        /\ \A c, d \in Captures : pc[c] \in Active /\ pc[d] \in Active => c = d
        /\ \A c \in Captures : pc[c] \in Active =>
              /\ ~forced[c] /\ "primary" \notin moved[c] => out["primary"] = NoFile
              /\ \A p \in moved[c] : out[p] # NoFile /\ out[p].by = c

\* At first no capture has read or moved anything.
LEMMA InitInv ==
    Init => TypeOK /\ CandidateInv /\ StillInv /\ OneInv /\ PublishedIsWhole
<1> SUFFICES ASSUME Init
             PROVE  TypeOK /\ CandidateInv /\ StillInv /\ OneInv /\ PublishedIsWhole
    OBVIOUS
<1> USE DEF Init, Empty, Parts
<1>1. TypeOK
  <2>1. Empty \in Files
    BY DEF Files
  <2>2. wanted \in [Captures -> SUBSET Parts]
    OBVIOUS
  <2> QED BY <2>1, <2>2 DEF TypeOK
<1>2. \A c \in Captures : Held(c) = {}
    BY DEF Held
<1>3. CandidateInv
    BY <1>2 DEF CandidateInv, Before
<1>4. StillInv /\ OneInv /\ PublishedIsWhole
    BY <1>2 DEF StillInv, NodeStateFromQuietHost, OneInv, Active, Before, PublishedIsWhole
<1> QED BY <1>1, <1>3, <1>4

\* The part a stream takes next: the images come after the node state.
LEMMA NextStream ==
    ASSUME TypeOK, CandidateInv, NEW c \in Captures, NEW p, Streaming(c, p)
    PROVE  /\ p \in wanted[c] \ Held(c)
           /\ p = "images" => "node" \notin wanted[c] \ Held(c)
<1> DEFINE left == {i \in 1..3 : StreamOrder[i] \in wanted[c] \ Held(c)}
<1>1. DOMAIN StreamOrder = 1..3
    BY DEF StreamOrder
<1>2. p = StreamOrder[CHOOSE i \in left : \A j \in left : i <= j]
    BY <1>1 DEF Streaming, First
<1>3. PICK q \in wanted[c] \ Held(c) : q \in Parts
  <2>1. Held(c) \subseteq wanted[c] /\ Held(c) # wanted[c] /\ wanted[c] \subseteq Parts
    BY DEF Streaming, CandidateInv, TypeOK
  <2> QED BY <2>1
<1>4. left # {}
    BY <1>3 DEF StreamOrder, Parts
<1>5. \E i \in left : \A j \in left : i <= j
    BY <1>4
<1>6. PICK k \in left : p = StreamOrder[k] /\ \A j \in left : k <= j
    BY <1>2, <1>5
<1> HIDE DEF left
<1>7. 2 \in left => k \in {1, 2}
    BY <1>6 DEF left
<1> QED BY <1>6, <1>7 DEF left, StreamOrder

\* The part a capture moves next: the lab definitions come last.
LEMMA NextMove ==
    ASSUME TypeOK, CandidateInv, NEW c \in Captures, NEW p,
           moved[c] # wanted[c], p = First(c, PublishOrder, moved[c])
    PROVE  /\ p \in wanted[c] \ moved[c]
           /\ p = "primary" => moved[c] \cup {p} = wanted[c]
<1> DEFINE left == {i \in 1..3 : PublishOrder[i] \in wanted[c] \ moved[c]}
<1>1. DOMAIN PublishOrder = 1..3
    BY DEF PublishOrder
<1>2. p = PublishOrder[CHOOSE i \in left : \A j \in left : i <= j]
    BY <1>1 DEF First
<1>3. PICK q \in wanted[c] \ moved[c] : q \in Parts
    BY DEF CandidateInv, TypeOK
<1>4. left # {}
    BY <1>3 DEF PublishOrder, Parts
<1>5. \E i \in left : \A j \in left : i <= j
    BY <1>4
<1>6. PICK k \in left : p = PublishOrder[k] /\ \A j \in left : k <= j
    BY <1>2, <1>5
<1>7. p \in wanted[c] \ moved[c]
    BY <1>6
<1>8. ASSUME p = "primary" PROVE moved[c] \cup {p} = wanted[c]
  <2>1. k = 3
    BY <1>6, <1>8 DEF PublishOrder
  <2>2. 1 \notin left /\ 2 \notin left
    BY <1>6, <2>1
  <2>3. "node" \notin wanted[c] \ moved[c] /\ "images" \notin wanted[c] \ moved[c]
    BY <2>2 DEF PublishOrder
  <2>4. wanted[c] \subseteq Parts /\ moved[c] \subseteq wanted[c]
    BY DEF TypeOK, CandidateInv
  <2> QED BY <1>7, <1>8, <2>3, <2>4 DEF Parts
<1> QED BY <1>7, <1>8

\* What has an archive is held.
LEMMA HeldIsArchive ==
    ASSUME TypeOK, NEW c \in Captures, NEW p \in Held(c)
    PROVE  p \in Parts /\ candidate[c][p] \in Archive
BY DEF TypeOK, Held, Files

\* What a step does to the candidates of a capture.
LEMMA HeldAfter ==
    ASSUME TypeOK, NEW c \in Captures, NEW d \in Captures
    PROVE  /\ candidate' = candidate => Held(d)' = Held(d)
           /\ \A p \in Parts : Read(c, p) =>
                 Held(d)' = IF c = d THEN Held(c) \cup {p} ELSE Held(d)
           /\ \A p \in Parts : Move(c, p) =>
                 Held(d)' = IF c = d THEN Held(c) \ {p} ELSE Held(d)
           /\ Cleanup(c) => Held(d)' = IF c = d THEN {} ELSE Held(d)
<1> USE DEF TypeOK, Held, Files
<1>1. candidate' = candidate => Held(d)' = Held(d)
    OBVIOUS
<1>2. ASSUME NEW p \in Parts, Read(c, p)
      PROVE  Held(d)' = IF c = d THEN Held(c) \cup {p} ELSE Held(d)
  <2>1. [by |-> c, ran |-> running \/ stirred[c], started |-> stirred[c]] # NoFile
    BY NoFileAssumption DEF Archive
  <2> QED BY <1>2, <2>1 DEF Read
<1>3. ASSUME NEW p \in Parts, Move(c, p)
      PROVE  Held(d)' = IF c = d THEN Held(c) \ {p} ELSE Held(d)
    BY <1>3 DEF Move
<1>4. ASSUME Cleanup(c) PROVE Held(d)' = IF c = d THEN {} ELSE Held(d)
    BY <1>4 DEF Cleanup, Empty
<1> QED BY <1>1, <1>2, <1>3, <1>4

\* Every step leads to well-typed values.
LEMMA TypeStep == TypeOK /\ CandidateInv /\ [Next]_vars => TypeOK'
<1> SUFFICES ASSUME TypeOK, CandidateInv, [Next]_vars PROVE TypeOK'
    OBVIOUS
<1> USE DEF TypeOK, Goto, Active, Before, Ended, options
<1>1. CASE UNCHANGED vars
    BY <1>1 DEF vars
<1>2. CASE StartNodes
    BY <1>2 DEF StartNodes
<1>3. CASE StopNodes
    BY <1>3 DEF StopNodes
<1>4. ASSUME NEW c \in Captures, Begin(c) PROVE TypeOK'
    BY <1>4 DEF Begin
<1>5. ASSUME NEW c \in Captures, Assess(c) PROVE TypeOK'
    BY <1>5 DEF Assess
<1>6. ASSUME NEW c \in Captures, Quiesce(c) PROVE TypeOK'
    BY <1>6 DEF Quiesce
<1>7. ASSUME NEW c \in Captures, Quiet(c) PROVE TypeOK'
    BY <1>7 DEF Quiet
<1>8. ASSUME NEW c \in Captures, Fails(c) PROVE TypeOK'
    BY <1>8 DEF Fails
<1>9. ASSUME NEW c \in Captures, NEW p \in Parts, Check(c, p) PROVE TypeOK'
    BY <1>9 DEF Check
<1>10. ASSUME NEW c \in Captures, NEW p \in Parts, Read(c, p) PROVE TypeOK'
  <2>1. [by |-> c, ran |-> running \/ stirred[c], started |-> stirred[c]] \in Archive
    BY DEF Archive
  <2>2. candidate' \in [Captures -> Files]
    BY <1>10, <2>1 DEF Read, Files
  <2> QED BY <1>10, <2>2 DEF Read
<1>11. ASSUME NEW c \in Captures, NEW p \in Parts, Move(c, p) PROVE TypeOK'
  <2>1. out' \in Files /\ candidate' \in [Captures -> Files]
    BY <1>11 DEF Move, Files
  <2> QED BY <1>11, <2>1 DEF Move
<1>12. ASSUME NEW c \in Captures, Verify(c) PROVE TypeOK'
    BY <1>12 DEF Verify
<1>13. ASSUME NEW c \in Captures, EndMoves(c) PROVE TypeOK'
    BY <1>13 DEF EndMoves
<1>14. ASSUME NEW c \in Captures, Cleanup(c) PROVE TypeOK'
  <2>1. Empty \in Files
    BY DEF Empty, Files
  <2> QED BY <1>14, <2>1 DEF Cleanup
<1>15. ASSUME NEW c \in Captures, Killed(c) PROVE TypeOK'
    BY <1>15 DEF Killed
<1> QED BY <1>1, <1>2, <1>3, <1>4, <1>5, <1>6, <1>7, <1>8, <1>9, <1>10, <1>11, <1>12, <1>13,
            <1>14, <1>15 DEF Next

\* A capture keeps what it has read until it is moved or thrown away.
LEMMA CandidateStep == TypeOK /\ CandidateInv /\ [Next]_vars => CandidateInv'
<1> SUFFICES ASSUME TypeOK, CandidateInv, [Next]_vars PROVE CandidateInv'
    OBVIOUS
<1> USE HeldAfter DEF TypeOK, CandidateInv, Goto, Before, options
<1>1. CASE UNCHANGED vars
    BY <1>1 DEF vars
<1>2. CASE StartNodes
    BY <1>2 DEF StartNodes
<1>3. CASE StopNodes
    BY <1>3 DEF StopNodes
<1>4. ASSUME NEW c \in Captures, Begin(c) PROVE CandidateInv'
    BY <1>4 DEF Begin
<1>5. ASSUME NEW c \in Captures, Assess(c) PROVE CandidateInv'
    BY <1>5 DEF Assess
<1>6. ASSUME NEW c \in Captures, Quiesce(c) PROVE CandidateInv'
    BY <1>6 DEF Quiesce
<1>7. ASSUME NEW c \in Captures, Quiet(c) PROVE CandidateInv'
    BY <1>7 DEF Quiet
<1>8. ASSUME NEW c \in Captures, Fails(c) PROVE CandidateInv'
    BY <1>8 DEF Fails
<1>9. ASSUME NEW c \in Captures, NEW p \in Parts, Check(c, p) PROVE CandidateInv'
    BY <1>9 DEF Check
<1>10. ASSUME NEW c \in Captures, NEW p \in Parts, Read(c, p) PROVE CandidateInv'
  <2>1. p \in wanted[c] \ Held(c)
    BY <1>10, NextStream DEF Read
  <2>2. \A d \in Captures : Held(d)' = IF c = d THEN Held(c) \cup {p} ELSE Held(d)
    BY <1>10
  <2>3. \A d \in Captures, q \in Parts :
          candidate'[d][q] = IF d = c /\ q = p
                             THEN [by |-> c, ran |-> running \/ stirred[c],
                                   started |-> stirred[c]]
                             ELSE candidate[d][q]
    BY <1>10 DEF Read, Files
  <2>4. \A d \in Captures : \A q \in Held(d)' : candidate'[d][q].by = d
    BY <2>2, <2>3, HeldIsArchive
  <2>5. pc'[c] = "verify" => wanted[c] \subseteq Held(c) \cup {p}
    BY <1>10 DEF Read
  <2> QED BY <1>10, <2>1, <2>2, <2>4, <2>5 DEF Read
<1>11. ASSUME NEW c \in Captures, NEW p \in Parts, Move(c, p) PROVE CandidateInv'
  <2>1. /\ p \in wanted[c] \ moved[c]
        /\ p = "primary" => moved[c] \cup {p} = wanted[c]
        /\ "primary" \notin moved[c]
    BY <1>11, NextMove DEF Move
  <2>2. \A d \in Captures : Held(d)' = IF c = d THEN Held(c) \ {p} ELSE Held(d)
    BY <1>11
  <2>3. \A d \in Captures, q \in Parts :
          q \in Held(d)' => candidate'[d][q] = candidate[d][q]
    BY <1>11, <2>2 DEF Move, Files
  <2>4. \A d \in Captures : \A q \in Held(d)' : candidate'[d][q].by = d
    BY <2>2, <2>3, HeldIsArchive
  <2>5. \A d \in Captures : moved'[d] = IF c = d THEN moved[c] \cup {p} ELSE moved[d]
    BY <1>11 DEF Move
  <2> QED BY <1>11, <2>1, <2>2, <2>4, <2>5 DEF Move
<1>12. ASSUME NEW c \in Captures, Verify(c) PROVE CandidateInv'
    BY <1>12 DEF Verify
<1>13. ASSUME NEW c \in Captures, EndMoves(c) PROVE CandidateInv'
    BY <1>13 DEF EndMoves
<1>14. ASSUME NEW c \in Captures, Cleanup(c) PROVE CandidateInv'
  <2>1. \A d \in Captures : Held(d)' = IF c = d THEN {} ELSE Held(d)
    BY <1>14
  <2>2. \A d \in Captures : \A q \in Held(d)' : candidate'[d][q] = candidate[d][q]
    BY <1>14, <2>1 DEF Cleanup
  <2> QED BY <1>14, <2>1, <2>2 DEF Cleanup
<1>15. ASSUME NEW c \in Captures, Killed(c) PROVE CandidateInv'
    BY <1>15 DEF Killed
<1> QED BY <1>1, <1>2, <1>3, <1>4, <1>5, <1>6, <1>7, <1>8, <1>9, <1>10, <1>11, <1>12, <1>13,
            <1>14, <1>15 DEF Next

\* Nodes that are started are noticed by every capture that is reading.
LEMMA StillStep ==
    TypeOK /\ CandidateInv /\ StillInv /\ [Next]_vars => StillInv'
<1> SUFFICES ASSUME TypeOK, CandidateInv, StillInv, [Next]_vars PROVE StillInv'
    OBVIOUS
<1> USE HeldAfter DEF TypeOK, StillInv, NodeStateFromQuietHost, Goto, options
<1>1. CASE UNCHANGED vars
    BY <1>1 DEF vars
<1>2. CASE StartNodes
    BY <1>2 DEF StartNodes
<1>3. CASE StopNodes
    BY <1>3 DEF StopNodes
<1>4. ASSUME NEW c \in Captures, Begin(c) PROVE StillInv'
    BY <1>4 DEF Begin
<1>5. ASSUME NEW c \in Captures, Assess(c) PROVE StillInv'
    BY <1>5 DEF Assess
<1>6. ASSUME NEW c \in Captures, Quiesce(c) PROVE StillInv'
  <2>1. running' => running
    BY <1>6 DEF Quiesce
  <2>2. \A d \in Captures : pc'[d] = "read" => pc[d] = "read"
    BY <1>6 DEF Quiesce
  <2> QED BY <1>6, <2>1, <2>2 DEF Quiesce
<1>7. ASSUME NEW c \in Captures, Quiet(c) PROVE StillInv'
    BY <1>7 DEF Quiet
<1>8. ASSUME NEW c \in Captures, Fails(c) PROVE StillInv'
    BY <1>8 DEF Fails
<1>9. ASSUME NEW c \in Captures, NEW p \in Parts, Check(c, p) PROVE StillInv'
  <2>1. p = "images" => "node" \notin wanted[c] \ Held(c)
    BY <1>9, NextStream DEF Check
  <2> QED BY <1>9, <2>1 DEF Check
<1>10. ASSUME NEW c \in Captures, NEW p \in Parts, Read(c, p) PROVE StillInv'
  <2>1. \A d \in Captures : Held(d)' = IF c = d THEN Held(c) \cup {p} ELSE Held(d)
    BY <1>10
  <2>2. p \in wanted[c] \ Held(c) /\ pc[c] = "read"
    BY <1>10, NextStream DEF Read
  <2>3. ASSUME NEW d \in Captures, "node" \in Held(d)', candidate'[d]["node"].ran
        PROVE  candidate'[d]["node"].started
    <3>1. CASE d = c /\ p = "node"
      BY <1>10, <2>2, <2>3, <3>1 DEF Read, Files
    <3>2. CASE ~(d = c /\ p = "node")
      <4>1. candidate'[d]["node"] = candidate[d]["node"]
        BY <1>10, <3>2 DEF Read, Files, Parts
      <4> QED BY <2>1, <2>3, <3>2, <4>1
    <3> QED BY <3>1, <3>2
  <2>4. \A d \in Captures : pc'[d] = "read" => d # c /\ pc[d] = "read"
    BY <1>10 DEF Read
  <2> QED BY <1>10, <2>1, <2>3, <2>4 DEF Read
<1>11. ASSUME NEW c \in Captures, NEW p \in Parts, Move(c, p) PROVE StillInv'
  <2>1. p \in wanted[c] \ moved[c] /\ pc[c] = "publish"
    BY <1>11, NextMove DEF Move
  <2>2. p \in Held(c)
    BY <2>1 DEF CandidateInv
  <2>3. \A d \in Captures : Held(d)' = IF c = d THEN Held(c) \ {p} ELSE Held(d)
    BY <1>11
  <2>4. \A d \in Captures : "node" \in Held(d)' =>
           candidate'[d]["node"] = candidate[d]["node"]
    BY <1>11, <2>3 DEF Move, Files, Parts
  <2>5. out'["node"] = IF p = "node" THEN candidate[c]["node"] ELSE out["node"]
    BY <1>11 DEF Move, Files, Parts
  <2>6. \A d \in Captures : pc'[d] = "read" => d # c /\ pc[d] = "read"
    BY <1>11, <2>1 DEF Move
  <2> QED BY <1>11, <2>2, <2>3, <2>4, <2>5, <2>6 DEF Move
<1>12. ASSUME NEW c \in Captures, Verify(c) PROVE StillInv'
    BY <1>12 DEF Verify
<1>13. ASSUME NEW c \in Captures, EndMoves(c) PROVE StillInv'
    BY <1>13 DEF EndMoves
<1>14. ASSUME NEW c \in Captures, Cleanup(c) PROVE StillInv'
  <2>1. \A d \in Captures : Held(d)' = IF c = d THEN {} ELSE Held(d)
    BY <1>14
  <2>2. \A d \in Captures : "node" \in Held(d)' =>
           candidate'[d]["node"] = candidate[d]["node"]
    BY <1>14, <2>1 DEF Cleanup
  <2> QED BY <1>14, <2>1, <2>2 DEF Cleanup
<1>15. ASSUME NEW c \in Captures, Killed(c) PROVE StillInv'
    BY <1>15 DEF Killed
<1> QED BY <1>1, <1>2, <1>3, <1>4, <1>5, <1>6, <1>7, <1>8, <1>9, <1>10, <1>11, <1>12, <1>13,
            <1>14, <1>15 DEF Next

\* What one capture moves nobody else touches, as long as none has met another.
LEMMA OneStep ==
    TypeOK /\ CandidateInv /\ OneInv /\ [Next]_vars => OneInv'
<1> SUFFICES ASSUME TypeOK, CandidateInv, OneInv, [Next]_vars PROVE OneInv'
    OBVIOUS
<1> USE DEF TypeOK, OneInv, Goto, Active, Before, options
<1>1. CASE UNCHANGED vars
    BY <1>1 DEF vars
<1>2. CASE StartNodes
    BY <1>2 DEF StartNodes
<1>3. CASE StopNodes
    BY <1>3 DEF StopNodes
<1>4. ASSUME NEW c \in Captures, Begin(c) PROVE OneInv'
  <2>1. "primary" \in wanted[c] /\ moved[c] = {}
    BY <1>4 DEF Begin, CandidateInv
  <2>2. ASSUME ~overlap'
        PROVE  ~overlap /\ \A d \in Captures : pc'[d] \in Active => d = c
    BY <1>4, <2>2 DEF Begin
  <2>3. pc'[c] \in Active /\ ~forced[c] => out["primary"] = NoFile
    BY <1>4, <2>1 DEF Begin
  <2> QED BY <1>4, <2>1, <2>2, <2>3 DEF Begin
<1>5. ASSUME NEW c \in Captures, Assess(c) PROVE OneInv'
    BY <1>5 DEF Assess
<1>6. ASSUME NEW c \in Captures, Quiesce(c) PROVE OneInv'
    BY <1>6 DEF Quiesce
<1>7. ASSUME NEW c \in Captures, Quiet(c) PROVE OneInv'
    BY <1>7 DEF Quiet
<1>8. ASSUME NEW c \in Captures, Fails(c) PROVE OneInv'
    BY <1>8 DEF Fails
<1>9. ASSUME NEW c \in Captures, NEW p \in Parts, Check(c, p) PROVE OneInv'
    BY <1>9 DEF Check
<1>10. ASSUME NEW c \in Captures, NEW p \in Parts, Read(c, p) PROVE OneInv'
    BY <1>10 DEF Read
<1>11. ASSUME NEW c \in Captures, NEW p \in Parts, Move(c, p) PROVE OneInv'
  <2>1. p \in wanted[c] \ moved[c] /\ pc[c] = "publish"
    BY <1>11, NextMove DEF Move
  <2>2. p \in Held(c)
    BY <2>1 DEF CandidateInv
  <2>3. candidate[c][p] # NoFile /\ candidate[c][p].by = c
    BY <2>2 DEF CandidateInv, Held
  <2>4. \A q \in Parts : out'[q] = IF q = p THEN candidate[c][p] ELSE out[q]
    BY <1>11 DEF Move, Files
  <2>5. \A d \in Captures : moved'[d] = IF d = c THEN moved[c] \cup {p} ELSE moved[d]
    BY <1>11 DEF Move
  <2>6. \A d \in Captures : moved[d] \subseteq Parts /\ "primary" \in Parts
    BY DEF Parts
  <2> QED BY <1>11, <2>1, <2>3, <2>4, <2>5, <2>6 DEF Move
<1>12. ASSUME NEW c \in Captures, Verify(c) PROVE OneInv'
    BY <1>12 DEF Verify
<1>13. ASSUME NEW c \in Captures, EndMoves(c) PROVE OneInv'
    BY <1>13 DEF EndMoves
<1>14. ASSUME NEW c \in Captures, Cleanup(c) PROVE OneInv'
    BY <1>14 DEF Cleanup
<1>15. ASSUME NEW c \in Captures, Killed(c) PROVE OneInv'
    BY <1>15 DEF Killed
<1> QED BY <1>1, <1>2, <1>3, <1>4, <1>5, <1>6, <1>7, <1>8, <1>9, <1>10, <1>11, <1>12, <1>13,
            <1>14, <1>15 DEF Next

\* Only a move touches the output, and the lab definitions are moved last.
LEMMA SetStep ==
    TypeOK /\ CandidateInv /\ OneInv /\ PublishedIsWhole /\ [Next]_vars
    => PublishedIsWhole'
<1> SUFFICES ASSUME TypeOK, CandidateInv, OneInv, PublishedIsWhole, [Next]_vars
             PROVE  PublishedIsWhole'
    OBVIOUS
<1>1. CASE UNCHANGED <<out, wanted, forced, moved>> /\ (overlap => overlap')
    BY <1>1 DEF PublishedIsWhole
<1>2. ASSUME NEW c \in Captures, NEW p \in Parts, Move(c, p), ~overlap,
             out'["primary"] # NoFile
      PROVE  \A q \in wanted[out'["primary"].by] :
                /\ out'[q] # NoFile
                /\ \/ out'[q].by = out'["primary"].by
                   \/ forced[out'[q].by] /\ "primary" \notin moved'[out'[q].by]
  <2>1. /\ p \in wanted[c] \ moved[c] /\ pc[c] = "publish"
        /\ p = "primary" => moved[c] \cup {p} = wanted[c]
        /\ "primary" \notin moved[c]
    BY <1>2, NextMove DEF Move, CandidateInv
  <2>2. candidate[c][p] # NoFile /\ candidate[c][p].by = c
    BY <2>1 DEF CandidateInv, Held
  <2>3. \A q \in Parts : out'[q] = IF q = p THEN candidate[c][p] ELSE out[q]
    BY <1>2 DEF Move, Files, TypeOK
  <2>4. moved'[c] = moved[c] \cup {p}
    BY <1>2 DEF Move, TypeOK
  <2>5. pc[c] \in Active
    BY <2>1 DEF Active
  <2>6. CASE p = "primary"
    <3>1. \A q \in moved[c] : out[q] # NoFile /\ out[q].by = c /\ q \in Parts
      BY <1>2, <2>5 DEF OneInv, TypeOK
    <3>2. out'["primary"].by = c /\ wanted[c] = moved[c] \cup {p}
      BY <2>1, <2>2, <2>3, <2>6
    <3>3. \A q \in wanted[c] : out'[q] # NoFile /\ out'[q].by = c
      BY <2>1, <2>2, <2>3, <3>1, <3>2
    <3> QED BY <3>2, <3>3
  <2>7. CASE p # "primary"
    <3>1. out["primary"] # NoFile
      BY <1>2, <2>3, <2>7 DEF Parts
    <3>2. forced[c]
      BY <1>2, <2>1, <2>5, <3>1 DEF OneInv
    <3>3. out'["primary"] = out["primary"] /\ out["primary"].by \in Captures
      BY <2>3, <2>7, <3>1 DEF Parts, Archive, Files, TypeOK
    <3>4. "primary" \notin moved'[c] /\ \A d \in Captures \ {c} : moved'[d] = moved[d]
      BY <1>2, <2>1, <2>4, <2>7 DEF Move, TypeOK
    <3>5. ASSUME NEW q \in wanted[out["primary"].by]
          PROVE  /\ out'[q] # NoFile
                 /\ \/ out'[q].by = out["primary"].by
                    \/ forced[out'[q].by] /\ "primary" \notin moved'[out'[q].by]
      <4>1. q \in Parts
        BY <3>3 DEF TypeOK
      <4>2. CASE q = p
        BY <2>2, <2>3, <3>2, <3>4, <4>1, <4>2
      <4>3. CASE q # p
        <5>1. /\ out'[q] = out[q] /\ out[q] # NoFile /\ out[q].by \in Captures
              /\ \/ out[q].by = out["primary"].by
                 \/ forced[out[q].by] /\ "primary" \notin moved[out[q].by]
          BY <1>2, <2>3, <3>1, <4>1, <4>3 DEF PublishedIsWhole, Archive, Files, TypeOK
        <5> QED BY <3>4, <5>1
      <4> QED BY <4>2, <4>3
    <3> QED BY <3>3, <3>5
  <2> QED BY <2>6, <2>7
<1>3. ASSUME NEW c \in Captures, NEW p \in Parts, Move(c, p) PROVE PublishedIsWhole'
    BY <1>2, <1>3 DEF PublishedIsWhole, Move, options
<1>4. \/ UNCHANGED <<out, wanted, forced, moved>> /\ (overlap => overlap')
      \/ \E c \in Captures, p \in Parts : Move(c, p)
    BY DEF Next, vars, options, StartNodes, StopNodes, Begin, Assess, Quiesce, Quiet, Fails,
        Check, Read, Verify, EndMoves, Cleanup, Killed
<1> QED BY <1>1, <1>3, <1>4

\* As long as none has met another, a capture without --force moves its archives
\* to places that are empty.
AbsentInv ==
    ~overlap =>
        \A c \in Captures : pc[c] \in Active /\ ~forced[c] =>
            \A p \in wanted[c] \ moved[c] : out[p] = NoFile

\* Each move fills one place, and takes it off what the capture has left to move.
LEMMA AbsentStep ==
    TypeOK /\ CandidateInv /\ OneInv /\ AbsentInv /\ [Next]_vars => AbsentInv'
<1> SUFFICES ASSUME TypeOK, CandidateInv, OneInv, AbsentInv, [Next]_vars PROVE AbsentInv'
    OBVIOUS
<1> USE DEF AbsentInv, Active, Before
<1>1. CASE /\ UNCHANGED <<out, options, moved>> /\ (overlap => overlap')
           /\ \A c \in Captures : pc'[c] \in Active => pc[c] \in Active
    BY <1>1 DEF options
<1>2. ASSUME NEW c \in Captures, Begin(c) PROVE AbsentInv'
    BY <1>2 DEF Begin, TypeOK, Goto, options
<1>3. ASSUME NEW c \in Captures, NEW p \in Parts, Move(c, p) PROVE AbsentInv'
  <2>1. pc[c] = "publish" /\ UNCHANGED <<pc, forced, wanted, overlap>>
    BY <1>3 DEF Move, options
  <2>2. \A q \in Parts \ {p} : out'[q] = out[q]
    BY <1>3 DEF Move, TypeOK, Files
  <2>3. moved'[c] = moved[c] \cup {p}
    BY <1>3 DEF Move, TypeOK
  <2>4. ~overlap => \A d \in Captures : pc[d] \in Active => d = c
    BY <2>1 DEF OneInv
  <2> QED BY <2>1, <2>2, <2>3, <2>4 DEF TypeOK
<1>4. \/ /\ UNCHANGED <<out, options, moved>> /\ (overlap => overlap')
         /\ \A c \in Captures : pc'[c] \in Active => pc[c] \in Active
      \/ \E c \in Captures : Begin(c) \/ \E p \in Parts : Move(c, p)
  <2> USE DEF TypeOK, Goto
  <2>1. CASE UNCHANGED vars \/ StartNodes \/ StopNodes
    BY <2>1 DEF vars, options, StartNodes, StopNodes
  <2>2. ASSUME NEW c \in Captures,
               \/ Assess(c) \/ Quiesce(c) \/ Quiet(c) \/ Fails(c) \/ Verify(c)
               \/ EndMoves(c) \/ Cleanup(c) \/ Killed(c)
               \/ \E p \in Parts : Check(c, p) \/ Read(c, p)
        PROVE  /\ UNCHANGED <<out, options, moved>> /\ (overlap => overlap')
               /\ \A d \in Captures : pc'[d] \in Active => pc[d] \in Active
    BY <2>2 DEF Assess, Quiesce, Quiet, Fails, Verify, EndMoves, Cleanup, Killed, Check, Read
  <2> QED BY <2>1, <2>2 DEF Next
<1> QED BY <1>1, <1>2, <1>3, <1>4

\* What a step replaces it replaces with an archive of the capture that moves.
LEMMA ReplaceStep ==
    ASSUME TypeOK, CandidateInv, AbsentInv, [Next]_vars,
           NEW p \in Parts, out[p] # NoFile, out'[p] # out[p]
    PROVE  forced[out'[p].by] \/ overlap
<1>1. PICK c \in Captures, q \in Parts : Move(c, q)
    BY DEF Next, vars, StartNodes, StopNodes, Begin, Assess, Quiesce, Quiet, Fails,
        Check, Read, Verify, EndMoves, Cleanup, Killed
<1>2. q = p /\ out'[p] = candidate[c][p]
    BY <1>1 DEF Move, TypeOK, Files
<1>3. p \in wanted[c] \ moved[c] /\ pc[c] = "publish"
    BY <1>1, <1>2, NextMove DEF Move
<1>4. out'[p].by = c
    BY <1>2, <1>3 DEF CandidateInv, Held
<1> QED BY <1>3, <1>4 DEF AbsentInv, Active

\* Type correctness of the capture.
THEOREM TypeCorrect == Spec => []TypeOK
<1>1. TypeOK /\ CandidateInv /\ [Next]_vars => TypeOK' /\ CandidateInv'
    BY TypeStep, CandidateStep
<1> QED BY InitInv, <1>1, PTL DEF Spec

\* Node state that is published was read from a quiet host, or from one that
\* somebody disturbed while it was read, for any number of captures.
THEOREM QuietNodeState == Spec => []NodeStateFromQuietHost
<1>1. /\ TypeOK /\ CandidateInv /\ StillInv
      /\ [Next]_vars
      => TypeOK' /\ CandidateInv' /\ StillInv'
    BY TypeStep, CandidateStep, StillStep
<1>2. StillInv => NodeStateFromQuietHost
    BY DEF StillInv
<1> QED BY InitInv, <1>1, <1>2, PTL DEF Spec

\* The parts that the capture of the published lab definitions was asked for are
\* there, and its own or of a later forced capture that did not get to its lab
\* definitions, as long as captures of the same output have not overlapped.  Parts
\* that it was not asked for may be of any capture.
THEOREM WholeCapture == Spec => []PublishedIsWhole
<1>1. /\ TypeOK /\ CandidateInv /\ OneInv /\ PublishedIsWhole
      /\ [Next]_vars
      => TypeOK' /\ CandidateInv' /\ OneInv' /\ PublishedIsWhole'
    BY TypeStep, CandidateStep, OneStep, SetStep
<1> QED BY InitInv, <1>1, PTL DEF Spec

\* A capture replaces an output that exists with --force only, whatever failed
\* or was killed before it, as long as captures of the same output have not
\* overlapped.
THEOREM ForceReplaces == Spec => ReplacedByForceOnly
<1>1. /\ TypeOK /\ CandidateInv /\ OneInv /\ AbsentInv
      /\ [Next]_vars
      => TypeOK' /\ CandidateInv' /\ OneInv' /\ AbsentInv'
    BY TypeStep, CandidateStep, OneStep, AbsentStep
<1>2. Init => AbsentInv
    BY DEF Init, AbsentInv, Empty, Active, Before
<1>3. TypeOK /\ CandidateInv /\ AbsentInv /\ [Next]_vars
      => [\A p \in Parts :
             out[p] # NoFile /\ out'[p] # out[p] => forced[out'[p].by] \/ overlap]_vars
    BY ReplaceStep
<1> QED BY InitInv, <1>1, <1>2, <1>3, PTL DEF Spec, ReplacedByForceOnly

-----------------------------------------------------------------------------
(* Import                                                                     *)

\* The steps of an import between its copies and its record.
Publication == {"check", "sum", "meta", "link"}

\* An import under way has its job, and one of the latest set is for
\* Containerlab.
JobInv ==
    \A i \in Processes :
        /\ importPc[i] \in Importing => job[i] \in Jobs
        /\ importPc[i] \in Publication => Blueprint(i) \in Containerlab

\* Copies only: no part under its name is bad, and whoever is past the copies
\* has all the parts of its bundle; a record and the link are written there.
StagedInv ==
    /\ \A t \in Targets, p \in BundleParts : staged[t][p] # "bad"
    /\ \A i \in Processes :
          importPc[i] \in Publication \cup {"record"} => Whole(Blueprint(i), Bundle(i))
    /\ NothingNamedIsMissing

\* An import that has met no other publishes alone, and the files it has
\* written are still its own.
AloneInv ==
    \A i \in Processes :
        Publishing(i) /\ ~clash[i] =>
            /\ \A o \in Processes : Publishing(o) => o = i
            /\ sum = Bundle(i)
            /\ importPc[i] \in {"link", "record"} => meta = Bundle(i)
            /\ importPc[i] = "record" => link = Target(i)

\* At first nothing is staged, recorded or published.
LEMMA ImportInitInv == ImportInit => ImportTypeOK /\ JobInv /\ StagedInv /\ AloneInv /\ LatestIsOneSet
<1> SUFFICES ASSUME ImportInit PROVE ImportTypeOK /\ JobInv /\ StagedInv /\ AloneInv /\ LatestIsOneSet
    OBVIOUS
<1> USE DEF ImportInit
<1>1. ImportTypeOK
    BY DEF ImportTypeOK
<1>2. JobInv /\ AloneInv
    BY DEF JobInv, AloneInv, Importing, Publication, Publishing
<1>3. StagedInv
    BY DEF StagedInv, NothingNamedIsMissing, Publication
<1>4. LatestIsOneSet
    BY DEF LatestIsOneSet, NoLink
<1> QED BY <1>1, <1>2, <1>3, <1>4

\* Every step leads to well-typed values, and an import keeps its job.
LEMMA ImportTypeStep == ImportTypeOK /\ JobInv /\ [ImportNext]_importVars => ImportTypeOK' /\ JobInv'
<1> SUFFICES ASSUME ImportTypeOK, JobInv, [ImportNext]_importVars PROVE ImportTypeOK' /\ JobInv'
    OBVIOUS
<1> USE ContainerlabAssumption DEF ImportTypeOK, JobInv, ImportGoto, Idle, Blueprint, Bundle,
        Target, latest, Importing, Publication
<1>1. CASE UNCHANGED importVars
    BY <1>1 DEF importVars
<1>2. ASSUME NEW i \in Processes, NEW j \in Jobs, BeginImport(i, j)
      PROVE  ImportTypeOK' /\ JobInv'
    BY <1>2 DEF BeginImport
<1>3. ASSUME NEW i \in Processes, SourceChanges(i) PROVE ImportTypeOK' /\ JobInv'
    BY <1>3 DEF SourceChanges
<1>4. ASSUME NEW i \in Processes, Decide(i) PROVE ImportTypeOK' /\ JobInv'
  <2>1. record[Blueprint(i)] \in Bundles \cup {NoBundle}
    BY <1>4 DEF Decide, Jobs
  <2> QED BY <1>4, <2>1 DEF Decide
<1>5. ASSUME NEW i \in Processes, Copied(i) PROVE ImportTypeOK' /\ JobInv'
    BY <1>5 DEF Copied
<1>6. ASSUME NEW i \in Processes, NEW p \in BundleParts, Copy(i, p)
      PROVE  ImportTypeOK' /\ JobInv'
  <2>1. Target(i) \in Targets
    BY <1>6 DEF Copy, Jobs, Targets
  <2>2. staged' \in [Targets -> [BundleParts -> {"none", "whole", "bad"}]]
    BY <1>6, <2>1 DEF Copy, Put
  <2> QED BY <1>6, <2>2 DEF Copy
<1>7. ASSUME NEW i \in Processes, CheckLatest(i) PROVE ImportTypeOK' /\ JobInv'
    BY <1>7 DEF CheckLatest
<1>8. ASSUME NEW i \in Processes, WriteSum(i) PROVE ImportTypeOK' /\ JobInv'
  <2>1. Bundle(i) \in Bundles
    BY <1>8 DEF WriteSum, Jobs
  <2>2. clash' \in [Processes -> BOOLEAN]
    BY <1>8 DEF WriteSum, Publishing
  <2> QED BY <1>8, <2>1, <2>2 DEF WriteSum
<1>9. ASSUME NEW i \in Processes, WriteMeta(i) PROVE ImportTypeOK' /\ JobInv'
    BY <1>9 DEF WriteMeta, Jobs
<1>10. ASSUME NEW i \in Processes, ReplaceLink(i) PROVE ImportTypeOK' /\ JobInv'
    BY <1>10 DEF ReplaceLink, Jobs, Targets
<1>11. ASSUME NEW i \in Processes, WriteRecord(i) PROVE ImportTypeOK' /\ JobInv'
    BY <1>11 DEF WriteRecord, Jobs
<1>12. ASSUME NEW i \in Processes, Stops(i) PROVE ImportTypeOK' /\ JobInv'
    BY <1>12 DEF Stops, Publishing
<1> QED BY <1>1, <1>2, <1>3, <1>4, <1>5, <1>6, <1>7, <1>8, <1>9, <1>10, <1>11, <1>12
            DEF ImportNext

\* A part that is whole stays whole.
LEMMA WholeStays ==
    ASSUME ImportTypeOK, [ImportNext]_importVars, NEW t \in Targets, NEW p \in BundleParts,
        staged[t][p] = "whole"
    PROVE  staged'[t][p] = "whole"
<1>1. CASE staged' = staged
    BY <1>1
<1>2. ASSUME NEW i \in Processes, NEW q \in BundleParts, Copy(i, q)
      PROVE  staged'[t][p] = "whole"
    BY <1>2 DEF Copy, Put, ImportTypeOK
<1> QED BY <1>1, <1>2 DEF ImportNext, importVars, BeginImport, SourceChanges, Decide, Copied,
            CheckLatest, WriteSum, WriteMeta, ReplaceLink, WriteRecord, Stops

\* The copies come first: no step names what is not there.
LEMMA StagedStep == ImportTypeOK /\ JobInv /\ StagedInv /\ [ImportNext]_importVars => StagedInv'
<1> SUFFICES ASSUME ImportTypeOK, JobInv, StagedInv, [ImportNext]_importVars PROVE StagedInv'
    OBVIOUS
<1>1. \A t \in Targets, p \in BundleParts : staged'[t][p] # "bad"
  <2>1. CASE staged' = staged
    BY <2>1 DEF StagedInv
  <2>2. ASSUME NEW i \in Processes, NEW q \in BundleParts, Copy(i, q)
        PROVE  \A t \in Targets, p \in BundleParts : staged'[t][p] # "bad"
    BY <2>2 DEF Copy, Put, ImportTypeOK, StagedInv
  <2> QED BY <2>1, <2>2 DEF ImportNext, importVars, BeginImport, SourceChanges, Decide,
              Copied, CheckLatest, WriteSum, WriteMeta, ReplaceLink, WriteRecord, Stops
<1>2. \A bp \in Blueprints, b \in Bundles : Whole(bp, b) => Whole(bp, b)'
  <2> SUFFICES ASSUME NEW bp \in Blueprints, NEW b \in Bundles, Whole(bp, b),
                      NEW p \in PartsOf(bp)
               PROVE  staged'[<<bp, b>>][p] = "whole"
      BY DEF Whole, PartsOf
  <2>1. <<bp, b>> \in Targets /\ p \in BundleParts
    BY DEF Targets, PartsOf, BundleParts
  <2> QED BY <2>1, WholeStays DEF Whole
<1>3. ASSUME NEW i \in Processes, importPc'[i] \in Publication \cup {"record"}
      PROVE  Whole(Blueprint(i), Bundle(i))'
  <2>1. CASE importPc[i] \in Publication \cup {"record"} /\ job'[i] = job[i]
    <3>1. job[i] \in Jobs
      BY <2>1 DEF JobInv, Importing, Publication
    <3>2. Whole(Blueprint(i), Bundle(i))
      BY <2>1 DEF StagedInv
    <3> QED BY <1>2, <2>1, <3>1, <3>2 DEF Jobs, Blueprint, Bundle, Whole
  <2>2. CASE Copied(i)
    <3>1. job[i] \in Jobs /\ Target(i) \in Targets
      BY <2>2 DEF Copied, JobInv, Importing, Jobs, Targets, Target, Blueprint, Bundle
    <3>2. Whole(Blueprint(i), Bundle(i))
      BY <2>2, <3>1 DEF Copied, StagedInv, Whole, PartsOf, BundleParts, ImportTypeOK, Target
    <3> QED BY <2>2, <3>2 DEF Copied, Whole, Blueprint, Bundle
  <2>3. \/ importPc[i] \in Publication \cup {"record"} /\ job'[i] = job[i]
        \/ Copied(i)
    <3> USE <1>3 DEF ImportTypeOK, ImportGoto, Idle, Publication
    <3>1. CASE UNCHANGED importVars
      BY <3>1 DEF importVars
    <3>2. ASSUME NEW k \in Processes, NEW j \in Jobs, BeginImport(k, j)
          PROVE  importPc[i] \in Publication \cup {"record"} /\ job'[i] = job[i]
      BY <3>2 DEF BeginImport
    <3>3. ASSUME NEW k \in Processes,
                 \/ SourceChanges(k) \/ Decide(k) \/ \E p \in BundleParts : Copy(k, p)
          PROVE  importPc[i] \in Publication \cup {"record"} /\ job'[i] = job[i]
      BY <3>3 DEF SourceChanges, Decide, Copy
    <3>4. ASSUME NEW k \in Processes, Copied(k), k # i
          PROVE  importPc[i] \in Publication \cup {"record"} /\ job'[i] = job[i]
      BY <3>4 DEF Copied
    <3>5. ASSUME NEW k \in Processes,
                 CheckLatest(k) \/ WriteSum(k) \/ WriteMeta(k) \/ ReplaceLink(k)
          PROVE  importPc[i] \in Publication \cup {"record"} /\ job'[i] = job[i]
      BY <3>5 DEF CheckLatest, WriteSum, WriteMeta, ReplaceLink
    <3>6. ASSUME NEW k \in Processes, WriteRecord(k) \/ Stops(k)
          PROVE  importPc[i] \in Publication \cup {"record"} /\ job'[i] = job[i]
      BY <3>6 DEF WriteRecord, Stops
    <3> QED BY <3>1, <3>2, <3>3, <3>4, <3>5, <3>6 DEF ImportNext
  <2> QED BY <2>1, <2>2, <2>3
<1>4. ASSUME NEW bp \in Blueprints, record'[bp] # NoBundle PROVE Whole(bp, record[bp])'
  <2>1. CASE record'[bp] = record[bp]
    <3>1. record[bp] \in Bundles /\ Whole(bp, record[bp])
      BY <1>4, <2>1 DEF ImportTypeOK, StagedInv, NothingNamedIsMissing
    <3> QED BY <1>2, <2>1, <3>1 DEF Whole
  <2>2. ASSUME NEW i \in Processes, WriteRecord(i), record'[bp] # record[bp]
        PROVE  Whole(bp, record[bp])'
    <3>1. job[i] \in Jobs /\ importPc[i] = "record"
      BY <2>2 DEF WriteRecord, JobInv, Importing
    <3>2. bp = Blueprint(i) /\ record'[bp] = Bundle(i) /\ staged' = staged
      BY <2>2, <3>1 DEF WriteRecord, ImportTypeOK, Jobs, Blueprint
    <3> QED BY <3>1, <3>2 DEF StagedInv, Whole
  <2>3. \/ record' = record
        \/ \E i \in Processes : WriteRecord(i)
    BY DEF ImportNext, importVars, BeginImport, SourceChanges, Decide, Copied, Copy,
        CheckLatest, WriteSum, WriteMeta, ReplaceLink, Stops
  <2> QED BY <2>1, <2>2, <2>3
<1>5. ASSUME link' # NoLink PROVE Whole(link[1], link[2])'
  <2>1. CASE link' = link
    <3>1. link \in Targets
      BY <1>5, <2>1 DEF ImportTypeOK
    <3>2. link[1] \in Blueprints /\ link[2] \in Bundles
      BY <3>1 DEF Targets
    <3>3. Whole(link[1], link[2])
      BY <1>5, <2>1 DEF StagedInv, NothingNamedIsMissing
    <3> QED BY <1>2, <2>1, <3>2, <3>3 DEF Whole
  <2>2. ASSUME NEW i \in Processes, ReplaceLink(i) PROVE Whole(link[1], link[2])'
    <3>1. link'[1] = Blueprint(i) /\ link'[2] = Bundle(i) /\ staged' = staged
      BY <2>2 DEF ReplaceLink, Target
    <3> QED BY <2>2, <3>1 DEF ReplaceLink, StagedInv, Publication, Whole
  <2>3. \/ link' = link
        \/ \E i \in Processes : ReplaceLink(i)
    BY DEF ImportNext, importVars, latest, BeginImport, SourceChanges, Decide, Copied, Copy,
        CheckLatest, WriteSum, WriteMeta, WriteRecord, Stops
  <2> QED BY <2>1, <2>2, <2>3
<1> QED BY <1>1, <1>3, <1>4, <1>5 DEF StagedInv, NothingNamedIsMissing

\* Who publishes keeps out of the way of the others or is marked.
LEMMA AloneStep == ImportTypeOK /\ JobInv /\ AloneInv /\ [ImportNext]_importVars => AloneInv'
<1> SUFFICES ASSUME ImportTypeOK, JobInv, AloneInv, [ImportNext]_importVars PROVE AloneInv'
    OBVIOUS
<1> USE DEF ImportTypeOK, AloneInv, Publishing, ImportGoto, Blueprint, Bundle, Target, latest
<1>1. CASE UNCHANGED importVars
    BY <1>1 DEF importVars
<1>2. ASSUME NEW i \in Processes, NEW j \in Jobs, BeginImport(i, j) PROVE AloneInv'
    BY <1>2 DEF BeginImport
<1>3. ASSUME NEW i \in Processes, SourceChanges(i) PROVE AloneInv'
    BY <1>3 DEF SourceChanges
<1>4. ASSUME NEW i \in Processes, Decide(i) PROVE AloneInv'
    BY <1>4 DEF Decide
<1>5. ASSUME NEW i \in Processes, Copied(i) PROVE AloneInv'
    BY <1>5 DEF Copied
<1>6. ASSUME NEW i \in Processes, NEW p \in BundleParts, Copy(i, p) PROVE AloneInv'
    BY <1>6 DEF Copy
<1>7. ASSUME NEW i \in Processes, CheckLatest(i) PROVE AloneInv'
    BY <1>7 DEF CheckLatest
<1>8. ASSUME NEW i \in Processes, WriteSum(i) PROVE AloneInv'
    BY <1>8 DEF WriteSum
<1>9. ASSUME NEW i \in Processes, WriteMeta(i) PROVE AloneInv'
    BY <1>9 DEF WriteMeta
<1>10. ASSUME NEW i \in Processes, ReplaceLink(i) PROVE AloneInv'
    BY <1>10 DEF ReplaceLink
<1>11. ASSUME NEW i \in Processes, WriteRecord(i) PROVE AloneInv'
    BY <1>11 DEF WriteRecord, Idle
<1>12. ASSUME NEW i \in Processes, Stops(i) PROVE AloneInv'
    BY <1>12 DEF Stops, Idle
<1> QED BY <1>1, <1>2, <1>3, <1>4, <1>5, <1>6, <1>7, <1>8, <1>9, <1>10, <1>11, <1>12
            DEF ImportNext

\* The set is left to itself only by an import that has published it whole, or
\* is marked.
LEMMA LatestStep ==
    ImportTypeOK /\ JobInv /\ AloneInv /\ LatestIsOneSet /\ [ImportNext]_importVars => LatestIsOneSet'
<1> SUFFICES ASSUME ImportTypeOK, JobInv, AloneInv, LatestIsOneSet, [ImportNext]_importVars,
                    \A i \in Processes : ~Publishing(i)', ~dirty'
             PROVE  sum' = meta' /\ meta' = link'[2]
    BY DEF LatestIsOneSet
<1>1. CASE /\ \A i \in Processes : ~Publishing(i)
           /\ ~dirty /\ UNCHANGED latest
    BY <1>1 DEF LatestIsOneSet, latest
<1>2. ASSUME NEW i \in Processes, WriteRecord(i), Publishing(i)
      PROVE  sum' = meta' /\ meta' = link'[2]
  <2>1. ~clash[i] /\ importPc[i] = "record"
    BY <1>2 DEF WriteRecord, Publishing
  <2> QED BY <1>2, <2>1 DEF AloneInv, WriteRecord, latest, Target
<1>3. ASSUME NEW i \in Processes, Stops(i), Publishing(i) PROVE FALSE
    BY <1>3 DEF Stops
<1>4. \/ /\ \A i \in Processes : ~Publishing(i)
         /\ ~dirty /\ UNCHANGED latest
      \/ \E i \in Processes : (WriteRecord(i) \/ Stops(i)) /\ Publishing(i)
  <2> USE DEF Publishing, ImportTypeOK, ImportGoto, Idle, Blueprint, latest
  <2>1. CASE UNCHANGED importVars
    BY <2>1 DEF importVars
  <2>2. ASSUME NEW i \in Processes, NEW j \in Jobs, BeginImport(i, j)
        PROVE  (\A k \in Processes : ~Publishing(k)) /\ ~dirty /\ UNCHANGED latest
    BY <2>2 DEF BeginImport
  <2>3. ASSUME NEW i \in Processes,
               \/ SourceChanges(i) \/ Decide(i) \/ Copied(i) \/ CheckLatest(i)
               \/ \E p \in BundleParts : Copy(i, p)
        PROVE  (\A k \in Processes : ~Publishing(k)) /\ ~dirty /\ UNCHANGED latest
    BY <2>3 DEF SourceChanges, Decide, Copied, CheckLatest, Copy
  <2>4. ASSUME NEW i \in Processes, WriteSum(i) \/ WriteMeta(i) \/ ReplaceLink(i)
        PROVE  FALSE
    BY <2>4 DEF WriteSum, WriteMeta, ReplaceLink, JobInv, Publication
  <2>5. ASSUME NEW i \in Processes, WriteRecord(i) \/ Stops(i), ~Publishing(i)
        PROVE  (\A k \in Processes : ~Publishing(k)) /\ ~dirty /\ UNCHANGED latest
    BY <2>5 DEF WriteRecord, Stops
  <2> QED BY <2>1, <2>2, <2>3, <2>4, <2>5 DEF ImportNext
<1> QED BY <1>1, <1>2, <1>3, <1>4

\* An import past its decision has --force, or has read no record of another
\* bundle.
SeenInv ==
    \A i \in Processes : importPc[i] \in {"copy", "record"} \cup Publication =>
        job[i].force \/ seen[i] \in {NoBundle, Bundle(i)}

\* What an import has read it keeps to its end.
LEMMA SeenStep == ImportTypeOK /\ SeenInv /\ [ImportNext]_importVars => SeenInv'
<1> SUFFICES ASSUME ImportTypeOK, SeenInv, [ImportNext]_importVars PROVE SeenInv'
    OBVIOUS
<1> USE DEF ImportTypeOK, SeenInv, ImportGoto, Bundle, Blueprint, Publication
<1>1. CASE UNCHANGED importVars
    BY <1>1 DEF importVars
<1>2. ASSUME NEW i \in Processes, NEW j \in Jobs, BeginImport(i, j) PROVE SeenInv'
    BY <1>2 DEF BeginImport
<1>3. ASSUME NEW i \in Processes, Decide(i) PROVE SeenInv'
    BY <1>3 DEF Decide
<1>4. ASSUME NEW i \in Processes,
             \/ SourceChanges(i) \/ Copied(i) \/ CheckLatest(i) \/ WriteSum(i)
             \/ WriteMeta(i) \/ ReplaceLink(i) \/ \E p \in BundleParts : Copy(i, p)
      PROVE  SeenInv'
    BY <1>4 DEF SourceChanges, Copied, CheckLatest, WriteSum, WriteMeta, ReplaceLink, Copy
<1>5. ASSUME NEW i \in Processes, WriteRecord(i) \/ Stops(i) PROVE SeenInv'
    BY <1>5 DEF WriteRecord, Stops, Idle
<1> QED BY <1>1, <1>2, <1>3, <1>4, <1>5 DEF ImportNext

\* A record is written by an import that ends there.
LEMMA RecordStep ==
    ASSUME ImportTypeOK, JobInv, SeenInv, [ImportNext]_importVars,
           NEW bp \in Blueprints, record[bp] # NoBundle, record'[bp] # record[bp]
    PROVE  \E i \in Processes :
              /\ importPc[i] = "record" /\ Target(i) = <<bp, record'[bp]>>
              /\ job[i].force \/ seen[i] # record[bp]
<1>1. PICK i \in Processes : WriteRecord(i)
    BY DEF ImportNext, importVars, BeginImport, SourceChanges, Decide, Copied, Copy,
        CheckLatest, WriteSum, WriteMeta, ReplaceLink, Stops
<1>2. bp = Blueprint(i) /\ record'[bp] = Bundle(i) /\ importPc[i] = "record"
    BY <1>1 DEF WriteRecord, ImportTypeOK
<1>3. job[i].force \/ seen[i] \in {NoBundle, Bundle(i)}
    BY <1>2 DEF SeenInv
<1> QED BY <1>2, <1>3 DEF Target

\* A record, and the link to the latest set, lead to a bundle that is there
\* with all its parts, whatever stopped which import and whatever became of its
\* sources.
THEOREM NamedIsThere == ImportSpec => []NothingNamedIsMissing
<1>1. ImportTypeOK /\ JobInv /\ StagedInv /\ [ImportNext]_importVars => ImportTypeOK' /\ JobInv' /\ StagedInv'
    BY ImportTypeStep, StagedStep
<1>2. StagedInv => NothingNamedIsMissing
    BY DEF StagedInv
<1> QED BY ImportInitInv, <1>1, <1>2, PTL DEF ImportSpec

\* The latest recovery set is of one archive whenever nobody is at it and the
\* last import that published it was undisturbed, for any number of imports.
THEOREM OneSet == ImportSpec => []LatestIsOneSet
<1>1. /\ ImportTypeOK /\ JobInv /\ AloneInv /\ LatestIsOneSet
      /\ [ImportNext]_importVars
      => ImportTypeOK' /\ JobInv' /\ AloneInv' /\ LatestIsOneSet'
    BY ImportTypeStep, AloneStep, LatestStep
<1> QED BY ImportInitInv, <1>1, PTL DEF ImportSpec

\* Type correctness of the import for any processes, blueprints and bundles.
THEOREM ImportTypeCorrect == ImportSpec => []ImportTypeOK
<1>1. ImportTypeOK /\ JobInv /\ [ImportNext]_importVars => ImportTypeOK' /\ JobInv'
    BY ImportTypeStep
<1> QED BY ImportInitInv, <1>1, PTL DEF ImportSpec

\* The active record of a blueprint gives way to another bundle with --force
\* only, or to an import that read the record before this one was written.
THEOREM ForcedRecord == ImportSpec => RecordReplacedByForce
<1>1. /\ ImportTypeOK /\ JobInv /\ SeenInv
      /\ [ImportNext]_importVars
      => ImportTypeOK' /\ JobInv' /\ SeenInv'
    BY ImportTypeStep, SeenStep
<1>2. ImportInit => SeenInv
    BY DEF ImportInit, SeenInv, Publication
<1>3. ImportTypeOK /\ JobInv /\ SeenInv /\ [ImportNext]_importVars
      => [\A bp \in Blueprints :
             record[bp] # NoBundle /\ record'[bp] # record[bp] =>
                 \E i \in Processes :
                     /\ importPc[i] = "record" /\ Target(i) = <<bp, record'[bp]>>
                     /\ job[i].force \/ seen[i] # record[bp]]_importVars
    BY RecordStep
<1> QED BY ImportInitInv, <1>1, <1>2, <1>3, PTL DEF ImportSpec, RecordReplacedByForce
=============================================================================

-------------------------- MODULE MaterialProofs --------------------------
(***************************************************************************)
(* Proofs about the other parts of MCAssistant, for every value of its     *)
(* constants: generated material, the chunks of a document and the search  *)
(* in them, and at the end the types of all its variables.                 *)
(*                                                                         *)
(* Material: what has been spoken is what comes before the line at hand.   *)
(* Chunks: each is the run of blocks after the one before it, and all that *)
(* is known of a run of blocks stays when the next is read.  Search: a     *)
(* chunk that is ahead in both rankings has the greater score.             *)
(***************************************************************************)
EXTENDS AssistantProofs

(* Generated material.                                                     *)

MadeRow == [status : {"pending", "done", "failed"},
            step : {"none", "script", "speak", "poll", "upload", "save"}, parts : Nat, at : Nat,
            polls : 0..Polls, voiced : SUBSET Nat, again : BOOLEAN]

(* A row whose goroutine lives is pending; the lines of an overview that   *)
(* come before the one at hand are spoken.                                 *)
MadeOK(kind, r) ==
    /\ r.step # "none" => r.status = "pending"
    /\ r.step = "script" => r.at = 0 /\ r.voiced = {}
    /\ r.step = "poll" => r.polls # 0
    /\ r.step \in {"speak", "poll"} => r.at \in 1..r.parts
    /\ kind = "audio" /\ r.step \in {"speak", "poll"} => r.voiced = 1..(r.at - 1)
    /\ kind = "audio" /\ (r.step \in {"upload", "save"} \/ r.status = "done") => r.voiced = 1..r.parts
    /\ r.step = "upload" => kind = "audio"

RowsMade ==
    /\ rows \in [Making!Kinds -> Seq(MadeRow)]
    /\ \A k \in Making!Kinds : Len(rows[k]) <= MaxMade
    /\ \A k \in Making!Kinds : \A i \in 1..Len(rows[k]) :
         /\ MadeOK(k, rows[k][i])
         /\ rows[k][i].status = "pending" => rows[k][i].step # "none" \/ <<k, i>> \in abandoned
    /\ \A i \in 2..Len(rows["slides"]) :
         rows["slides"][i - 1].status = "failed" \/ rows["slides"][i].again

(* What a request for slides has read still holds, unless another wrote.   *)
SlidesRead ==
    \A w \in Handlers :
        Making!At(w, "slides", "insert") /\ ~making[w].raced /\ Len(rows["slides"]) # 0 =>
            rows["slides"][Len(rows["slides"])].status = "failed"

Final == {"result", "error", "done"}
Open(sent) == \A i \in 1..Len(sent) : sent[i] \notin Final
Told(sent) ==
    \E n \in Nat : /\ Len(sent) = n + 2
                   /\ \A i \in 1..n : sent[i] \notin Final
                   /\ sent[n + 1] \in {"result", "error"} /\ sent[n + 2] = "done"

Event == {"status", "insight"} \cup Final
Request == [op : {"none", "slides", "audio", "quick", "detailed", "mindmap", "extract", "stream"},
         step : {"idle", "insert", "ask", "read", "ended"},
         what : Making!Modes \cup Making!Extractions \cup {None}, sent : Seq(Event), raced : BOOLEAN]
MakingOK(q) ==
    q.op = "stream" => /\ q.step \in {"read", "ask"} => Open(q.sent)
                       /\ q.step = "ended" => Told(q.sent)

HandsMade == making \in [Handlers -> Request] /\ \A w \in Handlers : MakingOK(making[w])

Texted == {None, "json", "text"}
CachesMade ==
    /\ summary \in [Making!Modes -> Texted] /\ mindmap \in {None, "json"}
    /\ shown \in {None, "json"}

MadeInv == RowsMade /\ SlidesRead /\ HandsMade /\ CachesMade

LEMMA MakingConstants ==
    MaxParts \in Nat /\ Polls \in Nat \ {0} /\ MaxMade \in Nat \ {0}
  BY AssistantAssumption DEF Making!MaterialAssumption

LEMMA IdleIs == Making!Idle \in Request /\ Making!Idle.op = "none" /\ Making!Idle.step = "idle" /\ MakingOK(Making!Idle)
  <1>1. << >> \in Seq(Event)
    OBVIOUS
  <1> QED
    BY <1>1 DEF Making!Idle, Request, MakingOK

LEMMA NewRowMade ==
  ASSUME NEW b \in BOOLEAN, NEW k
  PROVE  LET r == [Making!NewRow EXCEPT !.again = b]
         IN  r \in MadeRow /\ MadeOK(k, r) /\ r.status = "pending" /\ r.step = "script" /\ r.again = b
  <1>1. 0 \in 0..Polls
    BY MakingConstants
  <1> QED
    BY <1>1 DEF Making!NewRow, MadeRow, MadeOK

-----------------------------------------------------------------------------
(* The rows.                                                               *)

(* One row of a goroutine that lives becomes another.                      *)
LEMMA RowGoesOn ==
  ASSUME MadeInv, NEW k \in Making!Kinds, NEW i \in 1..Len(rows[k]), NEW r \in MadeRow, MadeOK(k, r),
         rows[k][i].step # "none", r.again = rows[k][i].again,
         Making!Row(k, i, r), abandoned \subseteq abandoned',
         r.status = "pending" => r.step # "none" \/ <<k, i>> \in abandoned',
         UNCHANGED <<making, summary, mindmap, shown>>
  PROVE  MadeInv'
  <1>1. /\ rows \in [Making!Kinds -> Seq(MadeRow)] /\ rows[k] \in Seq(MadeRow) /\ Len(rows[k]) \in Nat
        /\ \A l \in Making!Kinds : rows[l] \in Seq(MadeRow) /\ Len(rows[l]) \in Nat
    BY DEF MadeInv, RowsMade
  <1>2. rows' = [rows EXCEPT ![k] = [rows[k] EXCEPT ![i] = r]]
    BY DEF Making!Row
  <1> DEFINE new == [rows[k] EXCEPT ![i] = r]
  <1>3. /\ new \in Seq(MadeRow) /\ Len(new) = Len(rows[k]) /\ new[i] = r
        /\ \A j \in 1..Len(rows[k]) : j # i => new[j] = rows[k][j]
    BY <1>1
  <1> HIDE DEF new
  <1>4. rows'[k] = new /\ \A l \in Making!Kinds : l # k => rows'[l] = rows[l]
    BY <1>1, <1>2 DEF new
  <1>5. rows' \in [Making!Kinds -> Seq(MadeRow)]
    BY <1>1, <1>2, <1>3 DEF new
  <1>6. \A l \in Making!Kinds : Len(rows'[l]) = Len(rows[l])
    BY <1>3, <1>4
  <1>7. \A l \in Making!Kinds : \A j \in 1..Len(rows[l]) :
            rows'[l][j] = rows[l][j] \/ (l = k /\ j = i /\ rows'[l][j] = r)
    BY <1>3, <1>4
  <1>8. rows[k][i].status = "pending"
    BY DEF MadeInv, RowsMade, MadeOK
  <1>9. RowsMade'
    <2>1. \A l \in Making!Kinds : Len(rows'[l]) <= MaxMade
      BY <1>6 DEF MadeInv, RowsMade
    <2>2. ASSUME NEW l \in Making!Kinds, NEW j \in 1..Len(rows'[l])
          PROVE  /\ MadeOK(l, rows'[l][j])
                 /\ rows'[l][j].status = "pending" => rows'[l][j].step # "none" \/ <<l, j>> \in abandoned'
      <3>1. j \in 1..Len(rows[l])
        BY <2>2, <1>6
      <3>2. CASE rows'[l][j] = rows[l][j]
        BY <3>1, <3>2 DEF MadeInv, RowsMade
      <3>3. CASE l = k /\ j = i /\ rows'[l][j] = r
        BY <3>3
      <3> QED
        BY <1>7, <3>1, <3>2, <3>3
    <2>3. ASSUME NEW j \in 2..Len(rows'["slides"])
          PROVE  rows'["slides"][j - 1].status = "failed" \/ rows'["slides"][j].again
      <3>1. /\ "slides" \in Making!Kinds /\ Len(rows["slides"]) \in Nat
            /\ j \in 2..Len(rows["slides"]) /\ j \in 1..Len(rows["slides"]) /\ j - 1 \in 1..Len(rows["slides"])
        BY <1>1, <1>6 DEF Making!Kinds
      <3>2. rows["slides"][j - 1].status = "failed" \/ rows["slides"][j].again
        BY <3>1 DEF MadeInv, RowsMade
      <3>3. rows'["slides"][j].again = rows["slides"][j].again
        BY <3>1, <1>7
      <3>4. rows["slides"][j - 1].status = "failed" => rows'["slides"][j - 1].status = "failed"
        BY <3>1, <1>7, <1>8
      <3> QED
        BY <3>2, <3>3, <3>4
    <2> QED
      BY <1>5, <2>1, <2>2, <2>3 DEF RowsMade
  <1>10. SlidesRead'
    <2> SUFFICES ASSUME NEW w \in Handlers, Making!At(w, "slides", "insert"), ~making[w].raced,
                        Len(rows'["slides"]) # 0
                 PROVE  rows'["slides"][Len(rows'["slides"])].status = "failed"
      BY DEF SlidesRead, Making!At
    <2>1. /\ "slides" \in Making!Kinds /\ Len(rows'["slides"]) = Len(rows["slides"])
          /\ Len(rows["slides"]) \in 1..Len(rows["slides"])
      BY <1>1, <1>6 DEF Making!Kinds
    <2>2. rows["slides"][Len(rows["slides"])].status = "failed"
      BY <2>1 DEF MadeInv, SlidesRead
    <2> QED
      BY <2>1, <2>2, <1>7, <1>8
  <1> QED
    BY <1>9, <1>10 DEF MadeInv, HandsMade, CachesMade

LEMMA RowEnds ==
  ASSUME MadeInv, NEW k \in Making!Kinds, NEW i \in 1..Len(rows[k]), rows[k][i].step # "none",
         NEW r \in MadeRow, MadeOK(k, r), r.again = rows[k][i].again,
         NEW status \in {"done", "failed"},
         k = "audio" /\ status = "done" => r.voiced = 1..r.parts,
         Making!Ends(k, i, r, status)
  PROVE  MadeInv'
  <1>1. /\ 0 \in 0..Polls /\ {} \in SUBSET Nat /\ 0 \in Nat
        /\ UNCHANGED <<making, summary, mindmap, shown>>
    BY MakingConstants DEF Making!Ends, Making!OthersKept
  <1>2. rows[k][i] \in MadeRow /\ MadeOK(k, rows[k][i])
    <2>1. rows[k] \in Seq(MadeRow)
      BY DEF MadeInv, RowsMade
    <2>2. MadeOK(k, rows[k][i])
      BY DEF MadeInv, RowsMade
    <2> QED
      BY <2>1, <2>2
  <1>3. CASE /\ Making!Row(k, i, [r EXCEPT !.status = status, !.step = "none", !.at = 0, !.polls = 0])
             /\ UNCHANGED <<makingFaults, abandoned>>
    <2> DEFINE new == [r EXCEPT !.status = status, !.step = "none", !.at = 0, !.polls = 0]
    <2>1. /\ new \in MadeRow /\ new.again = r.again /\ new.step = "none" /\ new.status = status
          /\ new.voiced = r.voiced /\ new.parts = r.parts
      BY <1>1 DEF MadeRow
    <2>2. MadeOK(k, new)
      BY <2>1 DEF MadeOK
    <2>3. new.status # "pending"
      BY <2>1
    <2>4. Making!Row(k, i, new)
      BY <1>3
    <2> HIDE DEF new
    <2> QED
      BY <1>1, <1>3, <2>1, <2>2, <2>3, <2>4, RowGoesOn
  <1>4. CASE /\ Making!Row(k, i, [rows[k][i] EXCEPT !.step = "none", !.at = 0, !.polls = 0, !.voiced = {}])
             /\ abandoned' = abandoned \cup {<<k, i>>}
    <2> DEFINE new == [rows[k][i] EXCEPT !.step = "none", !.at = 0, !.polls = 0, !.voiced = {}]
    <2>1. /\ new \in MadeRow /\ new.again = rows[k][i].again /\ new.step = "none"
          /\ new.status = rows[k][i].status
      BY <1>1, <1>2 DEF MadeRow
    <2>2. MadeOK(k, new)
      BY <2>1, <1>2 DEF MadeOK
    <2>3. abandoned \subseteq abandoned' /\ <<k, i>> \in abandoned'
      BY <1>4
    <2>4. Making!Row(k, i, new)
      BY <1>4
    <2> HIDE DEF new
    <2> QED
      BY <1>1, <2>1, <2>2, <2>3, <2>4, RowGoesOn
  <1> QED
    BY <1>3, <1>4 DEF Making!Ends

LEMMA RowContinues ==
  ASSUME MadeInv, NEW k \in Making!Kinds, NEW i \in 1..Len(rows[k]), rows[k][i].step # "none",
         NEW r \in MadeRow, MadeOK(k, r), r.again = rows[k][i].again, r.step # "none",
         Making!Continues(k, i, r)
  PROVE  MadeInv'
  BY RowGoesOn DEF Making!Continues, Making!OthersKept

(* The next part, when the one at hand is done with.                       *)
LEMMA OnwardsIs ==
  ASSUME NEW k \in Making!Kinds, NEW r \in MadeRow, r.status = "pending", r.at \in 0..r.parts,
         k = "audio" => r.voiced = 1..r.at
  PROVE  /\ Making!Onwards(k, r) \in MadeRow /\ MadeOK(k, Making!Onwards(k, r))
         /\ Making!Onwards(k, r).again = r.again /\ Making!Onwards(k, r).step # "none"
  <1> DEFINE new == Making!Onwards(k, r)
  <1>1. 0 \in 0..Polls /\ r.at \in Nat /\ r.parts \in Nat
    BY MakingConstants DEF MadeRow
  <1>2. CASE r.at < r.parts
    <2> DEFINE q == [r EXCEPT !.at = r.at + 1, !.polls = 0, !.step = "speak"]
    <2>0. r.at + 1 \in Nat
      BY <1>1
    <2>1. /\ q \in MadeRow /\ q.at = r.at + 1 /\ q.step = "speak" /\ q.again = r.again
          /\ q.voiced = r.voiced /\ q.parts = r.parts /\ q.status = r.status
      BY <1>1, <2>0 DEF MadeRow
    <2>2. /\ new \in MadeRow /\ new.at = r.at + 1 /\ new.step = "speak" /\ new.again = r.again
          /\ new.voiced = r.voiced /\ new.parts = r.parts /\ new.status = "pending"
      <3>1. new = q
        BY <1>2 DEF Making!Onwards
      <3> HIDE DEF new, q
      <3> QED
        BY <2>1, <3>1
    <2> HIDE DEF new
    <2>3. new.at \in 1..new.parts /\ new.at - 1 = r.at
      BY <1>1, <1>2, <2>2
    <2>4. MadeOK(k, new)
      BY <2>2, <2>3 DEF MadeOK
    <2> QED
      BY <2>2, <2>4 DEF new
  <1>3. CASE ~(r.at < r.parts)
    <2> DEFINE next == IF k = "slides" THEN "save" ELSE "upload"
    <2>1. new = [r EXCEPT !.at = 0, !.polls = 0, !.step = next] /\ next \in {"save", "upload"}
      BY <1>3 DEF Making!Onwards
    <2> HIDE DEF new
    <2>2. /\ new \in MadeRow /\ new.step = next /\ new.again = r.again
          /\ new.voiced = r.voiced /\ new.parts = r.parts /\ new.status = "pending"
      BY <1>1, <2>1 DEF MadeRow
    <2>3. r.at = r.parts /\ (next = "upload" => k = "audio") /\ next \in {"save", "upload"}
      BY <1>1, <1>3 DEF Making!Kinds
    <2> HIDE DEF next
    <2>4. MadeOK(k, new)
      BY <2>2, <2>3 DEF MadeOK
    <2> QED
      BY <2>2, <2>3, <2>4 DEF new
  <1> QED
    BY <1>2, <1>3

LEMMA RowIsMade ==
  ASSUME MadeInv, NEW k \in Making!Kinds, NEW i \in Making!Rows(k)
  PROVE  /\ i \in 1..Len(rows[k]) /\ rows[k][i] \in MadeRow /\ MadeOK(k, rows[k][i])
         /\ rows[k][i].step # "none" => rows[k][i].status = "pending"
  <1>1. rows[k] \in Seq(MadeRow) /\ i \in 1..Len(rows[k])
    BY DEF MadeInv, RowsMade, Making!Rows
  <1>2. MadeOK(k, rows[k][i])
    BY <1>1 DEF MadeInv, RowsMade
  <1>3. rows[k][i] \in MadeRow
    BY <1>1
  <1> QED
    BY <1>1, <1>2, <1>3 DEF MadeOK

(* The script of a row, and its parts.                                     *)
LEMMA ScriptOK ==
  ASSUME MadeInv, NEW k \in Making!Kinds, NEW i \in Making!Rows(k),
         Making!ScriptFails(k, i) \/ Making!ScriptComes(k, i)
  PROVE  MadeInv'
  <1> DEFINE r == rows[k][i]
  <1>1. /\ i \in 1..Len(rows[k]) /\ r \in MadeRow /\ MadeOK(k, r) /\ r.step = "script"
        /\ r.status = "pending" /\ r.step # "none" /\ r.again = rows[k][i].again
    BY RowIsMade DEF Making!ScriptFails, Making!ScriptComes, Making!Working
  <1>2. CASE Making!Ends(k, i, r, "failed")
    <2> HIDE DEF r
    <2>1. MadeInv /\ Making!Ends(k, i, r, "failed") /\ rows[k][i].step # "none"
      BY <1>1, <1>2 DEF r
    <2> QED
      BY <1>1, <2>1, RowEnds
  <1>3. CASE \E n \in 0..MaxParts : Making!Continues(k, i, Making!Onwards(k, [r EXCEPT !.parts = n]))
    <2>1. PICK n \in 0..MaxParts : Making!Continues(k, i, Making!Onwards(k, [r EXCEPT !.parts = n]))
      BY <1>3
    <2> DEFINE q == [r EXCEPT !.parts = n]
    <2>2. /\ q \in MadeRow /\ q.at = 0 /\ q.voiced = {} /\ q.status = "pending"
          /\ q.again = r.again /\ q.parts = n /\ n \in Nat
      BY <1>1, MakingConstants DEF MadeRow, MadeOK
    <2>3. q.at \in 0..q.parts /\ q.voiced = 1..q.at
      <3>1. 1..0 = {} /\ 0 \in 0..n
        BY <2>2
      <3> HIDE DEF q
      <3> QED
        BY <2>2, <3>1
    <2>4. Making!Continues(k, i, Making!Onwards(k, q))
      BY <2>1
    <2> HIDE DEF q
    <2>5. /\ Making!Onwards(k, q) \in MadeRow /\ MadeOK(k, Making!Onwards(k, q))
          /\ Making!Onwards(k, q).again = rows[k][i].again /\ Making!Onwards(k, q).step # "none"
      BY <2>2, <2>3, OnwardsIs
    <2>6. rows[k][i].step # "none"
      BY <1>1
    <2> QED
      BY <1>1, <2>4, <2>5, <2>6, RowContinues
  <1> QED
    BY <1>2, <1>3 DEF Making!ScriptFails, Making!ScriptComes

(* A part was at hand, and is spoken or not.                               *)
LEMMA PartOK ==
  ASSUME MadeInv, NEW k \in Making!Kinds, NEW i \in Making!Rows(k), rows[k][i].step \in {"speak", "poll"},
         \/ Making!Spoken(k, i) \/ Making!Unspoken(k, i)
         \/ k = "slides" /\ Making!Continues(k, i, Making!Onwards(k, rows[k][i]))
  PROVE  MadeInv'
  <1> DEFINE r == rows[k][i]
             v == [r EXCEPT !.voiced = @ \cup {r.at}]
  <1>1. /\ i \in 1..Len(rows[k]) /\ r \in MadeRow /\ MadeOK(k, r)
        /\ r.status = "pending" /\ r.step # "none"
    BY RowIsMade
  <1>2. r.at \in 1..r.parts /\ (k = "audio" => r.voiced = 1..(r.at - 1)) /\ r.at \in Nat /\ r.parts \in Nat
    BY <1>1 DEF MadeOK, MadeRow
  <1>3. /\ v \in MadeRow /\ v.status = "pending" /\ v.at = r.at /\ v.parts = r.parts /\ v.again = r.again
        /\ v.voiced = r.voiced \cup {r.at}
    BY <1>1, <1>2 DEF MadeRow
  <1>4. /\ v.at \in 0..v.parts /\ r.at \in 0..r.parts
        /\ k = "audio" => v.voiced = 1..v.at
    BY <1>2, <1>3
  <1>5. k # "audio" <=> k = "slides"
    BY DEF Making!Kinds
  <1>6. CASE Making!Continues(k, i, Making!Onwards(k, v))
    <2> HIDE DEF v
    <2>1. /\ Making!Onwards(k, v) \in MadeRow /\ MadeOK(k, Making!Onwards(k, v))
          /\ Making!Onwards(k, v).again = r.again /\ Making!Onwards(k, v).step # "none"
      BY <1>3, <1>4, OnwardsIs
    <2> QED
      BY <1>1, <1>6, <2>1, RowContinues
  <1>7. CASE k = "slides" /\ Making!Continues(k, i, Making!Onwards(k, r))
    <2> HIDE DEF r
    <2>1. /\ Making!Onwards(k, r) \in MadeRow /\ MadeOK(k, Making!Onwards(k, r))
          /\ Making!Onwards(k, r).again = r.again /\ Making!Onwards(k, r).step # "none"
      BY <1>1, <1>4, <1>5, <1>7, OnwardsIs
    <2> QED
      BY <1>1, <1>7, <2>1, RowContinues DEF r
  <1>8. CASE Making!Ends(k, i, r, "failed")
    <2> HIDE DEF r
    <2>1. MadeInv /\ rows[k][i].step # "none" /\ r.again = rows[k][i].again
      BY <1>1 DEF r
    <2> QED
      BY <1>1, <1>8, <2>1, RowEnds
  <1> QED
    BY <1>5, <1>6, <1>7, <1>8 DEF Making!Spoken, Making!Unspoken

LEMMA FptOK ==
  ASSUME MadeInv, NEW k \in Making!Kinds, NEW i \in Making!Rows(k),
         Making!FptTakesOver(k, i) \/ Making!FptIsNotReady(k, i)
  PROVE  MadeInv'
  <1> DEFINE r == rows[k][i]
  <1>1. /\ i \in 1..Len(rows[k]) /\ r \in MadeRow /\ MadeOK(k, r) /\ r.step \in {"speak", "poll"}
        /\ r.status = "pending" /\ r.step # "none"
    BY RowIsMade DEF Making!FptTakesOver, Making!FptIsNotReady, Making!Working
  <1>2. CASE Making!Unspoken(k, i)
    BY <1>1, <1>2, PartOK
  <1>3. CASE r.step = "speak" /\ Making!Continues(k, i, [r EXCEPT !.step = "poll", !.polls = Polls])
    <2> DEFINE q == [r EXCEPT !.step = "poll", !.polls = Polls]
    <2>1. Polls \in 0..Polls /\ Polls # 0
      BY MakingConstants
    <2>2. /\ q \in MadeRow /\ q.step = "poll" /\ q.polls = Polls /\ q.status = r.status /\ q.at = r.at
          /\ q.voiced = r.voiced /\ q.parts = r.parts /\ q.again = r.again
      BY <1>1, <2>1 DEF MadeRow
    <2>3. MadeOK(k, q)
      BY <1>1, <1>3, <2>1, <2>2 DEF MadeOK
    <2>4. Making!Continues(k, i, q)
      BY <1>3
    <2> HIDE DEF q
    <2> QED
      BY <1>1, <2>2, <2>3, <2>4, RowContinues
  <1>4. CASE r.step = "poll" /\ r.polls # 1 /\ Making!Continues(k, i, [r EXCEPT !.polls = @ - 1])
    <2> DEFINE q == [r EXCEPT !.polls = @ - 1]
    <2>1. r.polls - 1 \in 0..Polls /\ r.polls - 1 # 0
      BY <1>1, <1>4, MakingConstants DEF MadeRow, MadeOK
    <2>2. /\ q \in MadeRow /\ q.step = "poll" /\ q.polls = r.polls - 1 /\ q.status = r.status /\ q.at = r.at
          /\ q.voiced = r.voiced /\ q.parts = r.parts /\ q.again = r.again
      BY <1>1, <1>4, <2>1 DEF MadeRow
    <2>3. MadeOK(k, q)
      BY <1>1, <1>4, <2>1, <2>2 DEF MadeOK
    <2>4. Making!Continues(k, i, q)
      BY <1>4
    <2> HIDE DEF q
    <2> QED
      BY <1>1, <2>2, <2>3, <2>4, RowContinues
  <1> QED
    BY <1>2, <1>3, <1>4 DEF Making!FptTakesOver, Making!FptIsNotReady, Making!Working

LEMMA AudioOK ==
  ASSUME MadeInv, NEW i \in Making!Rows("audio"), Making!UploadAudio(i) \/ Making!SaveAudio(i)
  PROVE  MadeInv'
  <1> DEFINE r == rows["audio"][i]
  <1>1. "audio" \in Making!Kinds
    BY DEF Making!Kinds
  <1>2. /\ i \in 1..Len(rows["audio"]) /\ r \in MadeRow /\ MadeOK("audio", r)
        /\ r.step \in {"upload", "save"} /\ r.step # "none"
    BY <1>1, RowIsMade DEF Making!UploadAudio, Making!SaveAudio, Making!Working
  <1>3. r.voiced = 1..r.parts
    BY <1>2 DEF MadeOK
  <1>4. CASE \E status \in {"done", "failed"} : Making!Ends("audio", i, r, status)
    <2>1. PICK status \in {"done", "failed"} : Making!Ends("audio", i, r, status)
      BY <1>4
    <2>2. MadeInv /\ rows["audio"][i].step # "none" /\ r.again = rows["audio"][i].again
      BY <1>2
    <2> HIDE DEF r
    <2> QED
      BY <1>1, <1>2, <1>3, <2>1, <2>2, RowEnds
  <1>5. CASE r.step = "upload" /\ Making!Continues("audio", i, [r EXCEPT !.step = "save"])
    <2> DEFINE q == [r EXCEPT !.step = "save"]
    <2>1. /\ q \in MadeRow /\ q.step = "save" /\ q.status = r.status
          /\ q.voiced = r.voiced /\ q.parts = r.parts /\ q.again = r.again
      BY <1>2 DEF MadeRow
    <2>2. MadeOK("audio", q)
      BY <1>2, <1>3, <2>1 DEF MadeOK
    <2>3. Making!Continues("audio", i, q)
      BY <1>5
    <2> HIDE DEF q
    <2> QED
      BY <1>1, <1>2, <2>1, <2>2, <2>3, RowContinues
  <1> QED
    BY <1>4, <1>5 DEF Making!UploadAudio, Making!SaveAudio, Making!Working

LEMMA SlidesOK ==
  ASSUME MadeInv, NEW i \in Making!Rows("slides"), Making!NoNarration(i) \/ Making!SaveSlides(i)
  PROVE  MadeInv'
  <1> DEFINE r == rows["slides"][i]
  <1>1. "slides" \in Making!Kinds
    BY DEF Making!Kinds
  <1>2. i \in 1..Len(rows["slides"]) /\ r \in MadeRow /\ MadeOK("slides", r)
    BY <1>1, RowIsMade
  <1>3. CASE Making!NoNarration(i)
    BY <1>1, <1>3, PartOK DEF Making!NoNarration, Making!Working
  <1>4. CASE Making!SaveSlides(i)
    <2>1. Making!Ends("slides", i, r, "done") /\ r.step = "save"
      BY <1>4 DEF Making!SaveSlides, Making!Working
    <2>2. MadeInv /\ rows["slides"][i].step # "none" /\ r.again = rows["slides"][i].again
      BY <2>1
    <2> HIDE DEF r
    <2> QED
      BY <1>1, <1>2, <2>1, <2>2, RowEnds
  <1> QED
    BY <1>3, <1>4

LEMMA JobOK == ASSUME MadeInv, Making!Job PROVE MadeInv'
  <1>1. ASSUME NEW k \in Making!Kinds, NEW i \in Making!Rows(k),
               Making!EdgeSpeaks(k, i) \/ Making!FptSpeaks(k, i)
        PROVE  MadeInv'
    BY <1>1, PartOK DEF Making!EdgeSpeaks, Making!FptSpeaks, Making!Working
  <1> QED
    BY <1>1, ScriptOK, FptOK, AudioOK, SlidesOK DEF Making!Job

-----------------------------------------------------------------------------
(* The requests.                                                           *)

(* One request changes, and no row.                                        *)
LEMMA HandGoesOn ==
  ASSUME MadeInv, NEW w \in Handlers, NEW q \in Request, MakingOK(q), making' = [making EXCEPT ![w] = q],
         q.op = "slides" /\ q.step = "insert" /\ ~q.raced /\ Len(rows["slides"]) # 0 =>
             rows["slides"][Len(rows["slides"])].status = "failed",
         UNCHANGED <<rows, abandoned>>, CachesMade'
  PROVE  MadeInv'
  <1>1. making \in [Handlers -> Request]
    BY DEF MadeInv, HandsMade
  <1>2. making'[w] = q /\ \A v \in Handlers : v # w => making'[v] = making[v]
    BY <1>1
  <1>3. HandsMade'
    BY <1>1, <1>2 DEF MadeInv, HandsMade
  <1>4. SlidesRead'
    BY <1>2 DEF MadeInv, SlidesRead, Making!At
  <1> QED
    BY <1>3, <1>4 DEF MadeInv, RowsMade

LEMMA WorkBegins ==
  ASSUME MadeInv, NEW w \in Handlers, NEW q \in Request, MakingOK(q), Making!Begins(w, q),
         q.op = "slides" /\ q.step = "insert" /\ ~q.raced /\ Len(rows["slides"]) # 0 =>
             rows["slides"][Len(rows["slides"])].status = "failed"
  PROVE  MadeInv'
  BY HandGoesOn DEF Making!Begins, MadeInv, CachesMade

LEMMA WorkLeaves ==
  ASSUME MadeInv, NEW w \in Handlers, Making!Leaves(w), UNCHANGED <<rows, abandoned>>, CachesMade'
  PROVE  MadeInv'
  BY HandGoesOn, IdleIs DEF Making!Leaves

(* What a request sends.                                                   *)
LEMMA WorkSends ==
  ASSUME MadeInv, NEW w \in Handlers, NEW next \in {"ask", "ended"}, NEW events \in Seq(Event),
         Making!Sends(w, next, events), MakingOK([making[w] EXCEPT !.step = next, !.sent = @ \o events]),
         UNCHANGED <<rows, abandoned>>, CachesMade'
  PROVE  MadeInv'
  <1> DEFINE q == [making[w] EXCEPT !.step = next, !.sent = @ \o events]
  <1>1. making \in [Handlers -> Request] /\ making[w] \in Request
    BY DEF MadeInv, HandsMade
  <1>2. making[w].sent \o events \in Seq(Event)
    BY <1>1 DEF Request
  <1>3. q \in Request /\ q.step = next
    BY <1>1, <1>2 DEF Request
  <1>4. making' = [making EXCEPT ![w] = q]
    BY <1>1 DEF Making!Sends
  <1>5. MakingOK(q)
    OBVIOUS
  <1> HIDE DEF q
  <1> QED
    BY <1>3, <1>4, <1>5, HandGoesOn

LEMMA GenerationOK == ASSUME MadeInv, Making!Generation PROVE MadeInv'
  <1>1. PICK w \in Handlers : \/ Making!ReadSlides(w) \/ Making!ReadAudio(w) \/ Making!GiveUp(w)
                              \/ Making!InsertRow(w, "slides") \/ Making!InsertRow(w, "audio")
    BY DEF Making!Generation, Making!InsertSlides, Making!InsertAudio
  <1>2. "slides" \in Making!Kinds /\ "audio" \in Making!Kinds /\ Len(rows["slides"]) \in Nat
    BY DEF Making!Kinds, MadeInv, RowsMade
  <1>3. CASE Making!ReadSlides(w)
    <2> DEFINE q == [Making!Idle EXCEPT !.op = "slides", !.step = "insert"]
    <2>1. q \in Request /\ q.op = "slides"
      BY IdleIs DEF Request
    <2>2. Len(rows["slides"]) # 0 => rows["slides"][Len(rows["slides"])].status = "failed"
      <3>1. Making!Latest("slides") \notin {"done", "pending"}
        BY <1>3 DEF Making!ReadSlides, Making!SlidesWanted
      <3>2. Len(rows["slides"]) # 0 =>
                /\ rows["slides"] # << >>
                /\ rows["slides"][Len(rows["slides"])] \in MadeRow
        BY <1>2 DEF MadeInv, RowsMade
      <3> QED
        BY <3>1, <3>2 DEF Making!Latest, MadeRow
    <2>3. Making!Begins(w, q)
      BY <1>3 DEF Making!ReadSlides
    <2> HIDE DEF q
    <2> QED
      BY <2>1, <2>2, <2>3, WorkBegins DEF MakingOK
  <1>4. CASE Making!ReadAudio(w)
    <2> DEFINE q == [Making!Idle EXCEPT !.op = "audio", !.step = "insert"]
    <2>1. q \in Request /\ q.op = "audio"
      BY IdleIs DEF Request
    <2>2. Making!Begins(w, q)
      BY <1>4 DEF Making!ReadAudio
    <2> HIDE DEF q
    <2> QED
      BY <2>1, <2>2, WorkBegins DEF MakingOK
  <1>5. CASE Making!GiveUp(w)
    BY <1>5, WorkLeaves DEF Making!GiveUp, MadeInv, CachesMade
  <1>6. ASSUME NEW k \in Making!Kinds, Making!InsertRow(w, k) PROVE MadeInv'
    <2> DEFINE r == [Making!NewRow EXCEPT !.again = making[w].raced]
    <2>1. making \in [Handlers -> Request] /\ making[w] \in Request /\ making[w].raced \in BOOLEAN
      BY DEF MadeInv, HandsMade, Request
    <2>2. r \in MadeRow /\ MadeOK(k, r) /\ r.status = "pending" /\ r.step = "script" /\ r.again = making[w].raced
      BY <2>1, NewRowMade
    <2>3. rows' = [rows EXCEPT ![k] = Append(rows[k], r)] /\ UNCHANGED abandoned
      BY <1>6 DEF Making!InsertRow
    <2> HIDE DEF r
    <2>4. /\ rows \in [Making!Kinds -> Seq(MadeRow)] /\ rows[k] \in Seq(MadeRow) /\ Len(rows[k]) \in Nat
          /\ Len(rows[k]) < MaxMade
      BY <1>6 DEF MadeInv, RowsMade, Making!InsertRow
    <2> DEFINE new == Append(rows[k], r)
    <2>5. /\ new \in Seq(MadeRow) /\ Len(new) = Len(rows[k]) + 1 /\ new[Len(rows[k]) + 1] = r
          /\ \A i \in 1..Len(rows[k]) : new[i] = rows[k][i]
      BY <2>2, <2>4
    <2> HIDE DEF new
    <2>6. /\ rows'[k] = new /\ \A l \in Making!Kinds : l # k => rows'[l] = rows[l]
          /\ rows' \in [Making!Kinds -> Seq(MadeRow)]
      BY <2>3, <2>4, <2>5 DEF new
    <2>7. \A i \in 1..Len(new) : i \in 1..Len(rows[k]) \/ i = Len(rows[k]) + 1
      BY <2>4, <2>5
    <2>8. k = "slides" /\ ~making[w].raced /\ Len(rows[k]) # 0 => rows[k][Len(rows[k])].status = "failed"
      BY <1>6 DEF Making!InsertRow, MadeInv, SlidesRead, Making!At
    <2>9. RowsMade'
      <3>1. \A l \in Making!Kinds : Len(rows'[l]) <= MaxMade
        BY <2>4, <2>5, <2>6, MakingConstants DEF MadeInv, RowsMade
      <3>2. ASSUME NEW l \in Making!Kinds, NEW i \in 1..Len(rows'[l])
            PROVE  /\ MadeOK(l, rows'[l][i])
                   /\ rows'[l][i].status = "pending" => rows'[l][i].step # "none" \/ <<l, i>> \in abandoned'
        <4>1. CASE l = k /\ i = Len(rows[k]) + 1
          BY <2>2, <2>5, <2>6, <4>1
        <4>2. CASE ~(l = k /\ i = Len(rows[k]) + 1)
          <5>1. i \in 1..Len(rows[l]) /\ rows'[l][i] = rows[l][i]
            BY <2>5, <2>6, <2>7, <4>2
          <5> QED
            BY <2>3, <5>1 DEF MadeInv, RowsMade
        <4> QED
          BY <4>1, <4>2
      <3>3. ASSUME NEW i \in 2..Len(rows'["slides"])
            PROVE  rows'["slides"][i - 1].status = "failed" \/ rows'["slides"][i].again
        <4>1. CASE k # "slides"
          BY <1>2, <2>6, <4>1 DEF MadeInv, RowsMade
        <4>2. CASE k = "slides" /\ i = Len(rows[k]) + 1
          <5>1. i - 1 = Len(rows[k]) /\ Len(rows[k]) # 0 /\ i - 1 \in 1..Len(rows[k])
            BY <2>4, <2>5, <2>6, <4>2
          <5> QED
            BY <2>2, <2>5, <2>6, <2>8, <4>2, <5>1
        <4>3. CASE k = "slides" /\ i # Len(rows[k]) + 1
          <5>1. i \in 2..Len(rows[k]) /\ i \in 1..Len(rows[k]) /\ i - 1 \in 1..Len(rows[k])
            BY <2>4, <2>5, <2>6, <4>3
          <5>2. rows'["slides"][i] = rows["slides"][i] /\ rows'["slides"][i - 1] = rows["slides"][i - 1]
            BY <2>5, <2>6, <4>3, <5>1
          <5> QED
            BY <4>3, <5>1, <5>2 DEF MadeInv, RowsMade
        <4> QED
          BY <4>1, <4>2, <4>3
      <3> QED
        BY <2>6, <3>1, <3>2, <3>3 DEF RowsMade
    <2>10. /\ making'[w] = Making!Idle /\ making' \in [Handlers -> Request]
           /\ \A v \in Handlers : v # w =>
                 IF Making!At(v, k, "insert") THEN making'[v] = [making[v] EXCEPT !.raced = TRUE]
                                              ELSE making'[v] = making[v]
      <3>1. \A v \in Handlers : making[v] \in Request /\ [making[v] EXCEPT !.raced = TRUE] \in Request
        BY <2>1 DEF Request
      <3> QED
        BY <1>6, <3>1, IdleIs DEF Making!InsertRow
    <2>11. HandsMade'
      <3>1. ASSUME NEW v \in Handlers PROVE MakingOK(making'[v])
        <4>1. CASE v = w
          BY <2>10, <4>1, IdleIs
        <4>2. CASE v # w /\ Making!At(v, k, "insert")
          <5>1. making[v] \in Request /\ making[v].op = k /\ k # "stream"
            BY <2>1, <4>2 DEF Making!At, Making!Kinds
          <5>2. making'[v].op = k
            BY <2>10, <4>2, <5>1 DEF Request
          <5> QED
            BY <5>1, <5>2 DEF MakingOK
        <4>3. CASE v # w /\ ~Making!At(v, k, "insert")
          BY <2>10, <4>3 DEF MadeInv, HandsMade
        <4> QED
          BY <4>1, <4>2, <4>3
      <3> QED
        BY <2>10, <3>1 DEF HandsMade
    <2>12. SlidesRead'
      <3> SUFFICES ASSUME NEW v \in Handlers, making'[v].op = "slides", making'[v].step = "insert",
                          ~making'[v].raced, Len(rows'["slides"]) # 0
                   PROVE  rows'["slides"][Len(rows'["slides"])].status = "failed"
        BY DEF SlidesRead, Making!At
      <3>1. v # w
        BY <2>10, IdleIs
      <3>2. ~Making!At(v, k, "insert")
        <4>1. Making!At(v, k, "insert") => making'[v].raced
          BY <2>1, <2>10, <3>1 DEF Request
        <4> QED
          BY <4>1
      <3>3. making'[v] = making[v] /\ k # "slides"
        BY <2>10, <3>1, <3>2 DEF Making!At
      <3>4. rows'["slides"] = rows["slides"]
        BY <1>2, <2>6, <3>3
      <3> QED
        BY <3>3, <3>4 DEF MadeInv, SlidesRead, Making!At
    <2>13. CachesMade'
      BY <1>6 DEF Making!InsertRow, MadeInv, CachesMade
    <2> QED
      BY <2>9, <2>11, <2>12, <2>13 DEF MadeInv
  <1> QED
    BY <1>1, <1>2, <1>3, <1>4, <1>5, <1>6

LEMMA RestartOK == ASSUME MadeInv, Making!Restart PROVE MadeInv'
  <1> DEFINE Cut(r) == IF r.step = "none" THEN r
                       ELSE [r EXCEPT !.step = "none", !.at = 0, !.polls = 0, !.voiced = {}]
  <1>1. /\ rows \in [Making!Kinds -> Seq(MadeRow)]
        /\ \A k \in Making!Kinds : rows[k] \in Seq(MadeRow) /\ Making!Rows(k) = 1..Len(rows[k])
                                   /\ Len(rows[k]) \in Nat /\ Len(rows[k]) <= MaxMade
    BY DEF MadeInv, RowsMade, Making!Rows
  <1>2. ASSUME NEW r \in MadeRow
        PROVE  Cut(r) \in MadeRow /\ Cut(r).status = r.status /\ Cut(r).again = r.again /\ Cut(r).step = "none"
    <2>1. 0 \in 0..Polls /\ {} \in SUBSET Nat
      BY MakingConstants
    <2>2. CASE r.step = "none"
      BY <2>2
    <2>3. CASE r.step # "none"
      <3> DEFINE q == [r EXCEPT !.step = "none", !.at = 0, !.polls = 0, !.voiced = {}]
      <3>1. q \in MadeRow /\ q.status = r.status /\ q.again = r.again /\ q.step = "none"
        BY <2>1 DEF MadeRow
      <3>2. Cut(r) = q
        BY <2>3
      <3> HIDE DEF Cut, q
      <3> QED
        BY <3>1, <3>2
    <2> QED
      BY <2>2, <2>3
  <1>3. ASSUME NEW r \in MadeRow, NEW k, MadeOK(k, r) PROVE MadeOK(k, Cut(r))
    <2>1. CASE r.step = "none"
      BY <1>3, <2>1
    <2>2. CASE r.step # "none"
      <3>1. Cut(r).status = "pending" /\ Cut(r).step = "none"
        BY <1>2, <1>3, <2>2 DEF MadeOK
      <3> QED
        BY <3>1 DEF MadeOK
    <2> QED
      BY <2>1, <2>2
  <1> DEFINE new == [k \in Making!Kinds |-> [i \in 1..Len(rows[k]) |-> Cut(rows[k][i])]]
  <1>4. rows' = new
    BY <1>1 DEF Making!Restart
  <1> HIDE DEF Cut
  <1>5. /\ new \in [Making!Kinds -> Seq(MadeRow)]
        /\ \A k \in Making!Kinds : /\ Len(new[k]) = Len(rows[k])
                                   /\ \A i \in 1..Len(rows[k]) : new[k][i] = Cut(rows[k][i])
    BY <1>1, <1>2
  <1> HIDE DEF new
  <1>6. \A k \in Making!Kinds : \A i \in 1..Len(rows[k]) : rows[k][i] \in MadeRow
    BY <1>1
  <1>7. RowsMade'
    <2>1. \A k \in Making!Kinds : \A i \in 1..Len(rows[k]) : MadeOK(k, rows[k][i])
      BY DEF MadeInv, RowsMade
    <2>2. ASSUME NEW k \in Making!Kinds, NEW i \in 1..Len(rows[k]), rows[k][i].status = "pending"
          PROVE  <<k, i>> \in abandoned'
      <3>1. CASE rows[k][i].step = "none"
        <4>1. <<k, i>> \in abandoned
          BY <2>2, <3>1 DEF MadeInv, RowsMade
        <4> QED
          BY <4>1 DEF Making!Restart
      <3>2. CASE rows[k][i].step # "none"
        <4>1. i \in 1..MaxMade
          BY <1>1, MakingConstants
        <4>2. <<k, i>> \in {pair \in Making!Kinds \X (1..MaxMade) :
                  pair[2] \in Making!Rows(pair[1]) /\ rows[pair[1]][pair[2]].step # "none"}
          BY <1>1, <3>2, <4>1
        <4> QED
          BY <4>2 DEF Making!Restart
      <3> QED
        BY <3>1, <3>2
    <2>3. ASSUME NEW k \in Making!Kinds, NEW i \in 1..Len(rows[k])
          PROVE  /\ MadeOK(k, rows'[k][i])
                 /\ rows'[k][i].status = "pending" => rows'[k][i].step # "none" \/ <<k, i>> \in abandoned'
      BY <1>2, <1>3, <1>4, <1>5, <1>6, <2>1, <2>2
    <2>4. ASSUME NEW i \in 2..Len(rows["slides"])
          PROVE  rows'["slides"][i - 1].status = "failed" \/ rows'["slides"][i].again
      <3>1. "slides" \in Making!Kinds /\ i \in 1..Len(rows["slides"]) /\ i - 1 \in 1..Len(rows["slides"])
        BY <1>1 DEF Making!Kinds
      <3>2. rows["slides"][i - 1].status = "failed" \/ rows["slides"][i].again
        BY DEF MadeInv, RowsMade
      <3> QED
        BY <1>2, <1>4, <1>5, <1>6, <3>1, <3>2
    <2>5. "slides" \in Making!Kinds
      BY DEF Making!Kinds
    <2> QED
      BY <1>1, <1>4, <1>5, <2>3, <2>4, <2>5 DEF RowsMade
  <1>8. making' \in [Handlers -> Request] /\ \A w \in Handlers : making'[w] = Making!Idle
    BY IdleIs DEF Making!Restart
  <1>9. HandsMade' /\ SlidesRead'
    BY <1>8, IdleIs DEF HandsMade, SlidesRead, Making!At
  <1>10. CachesMade'
    BY DEF Making!Restart, MadeInv, CachesMade
  <1> QED
    BY <1>7, <1>9, <1>10 DEF MadeInv

-----------------------------------------------------------------------------
(* What is kept in Redis.                                                  *)

LEMMA KeptOK == ASSUME MadeInv, Making!Kept PROVE MadeInv'
  <1>1. /\ summary \in [Making!Modes -> Texted] /\ "quick" \in Making!Modes
        /\ making \in [Handlers -> Request] /\ CachesMade
    BY DEF MadeInv, CachesMade, HandsMade, Making!Modes
  <1>2. ASSUME NEW w \in Handlers, Making!QuickHit(w) PROVE MadeInv'
    <2>1. CachesMade'
      BY <1>1, <1>2 DEF CachesMade, Making!QuickHit, Making!Fits
    <2> QED
      BY <1>2, <2>1 DEF Making!QuickHit, MadeInv, RowsMade, SlidesRead, HandsMade, Making!At
  <1>3. ASSUME NEW w \in Handlers, Making!QuickMiss(w) \/ Making!MindmapMiss(w) PROVE MadeInv'
    <2>1. PICK op \in {"quick", "mindmap"} : Making!Begins(w, [Making!Idle EXCEPT !.op = op, !.step = "ask"])
      BY <1>3 DEF Making!QuickMiss, Making!MindmapMiss
    <2> DEFINE q == [Making!Idle EXCEPT !.op = op, !.step = "ask"]
    <2>2. q \in Request /\ q.op = op
      BY IdleIs DEF Request
    <2>3. Making!Begins(w, q)
      BY <2>1
    <2> HIDE DEF q
    <2> QED
      BY <2>2, <2>3, WorkBegins DEF MakingOK
  <1>4. ASSUME NEW w \in Handlers, Making!QuickAnswer(w) \/ Making!MindmapAnswer(w) \/ Making!AskFails(w)
        PROVE  MadeInv'
    <2>1. CachesMade'
      BY <1>1, <1>4 DEF CachesMade, Texted, Making!QuickAnswer, Making!MindmapAnswer, Making!AskFails
    <2> QED
      BY <1>4, <2>1, WorkLeaves DEF Making!QuickAnswer, Making!MindmapAnswer, Making!AskFails
  <1>5. ASSUME NEW w \in Handlers, Making!DetailedAnswer(w) \/ Making!DetailedFails(w) PROVE MadeInv'
    <2>1. PICK events \in {<<"result", "done">>, <<"done">>} : Making!Sends(w, "ended", events)
      BY <1>5 DEF Making!DetailedAnswer, Making!DetailedFails
    <2>2. events \in Seq(Event)
      <3>1. <<"result", "done">> \in Seq(Event) /\ <<"done">> \in Seq(Event)
        BY DEF Event, Final
      <3> QED
        BY <3>1
    <2>3. making[w] \in Request /\ making[w].op = "detailed"
      BY <1>1, <1>5 DEF Making!DetailedAnswer, Making!DetailedFails, Making!At
    <2>4. MakingOK([making[w] EXCEPT !.step = "ended", !.sent = @ \o events])
      BY <2>3 DEF MakingOK, Request
    <2>5. CachesMade'
      BY <1>1, <1>5 DEF CachesMade, Texted, Making!DetailedAnswer, Making!DetailedFails
    <2>6. UNCHANGED <<rows, abandoned>>
      BY <1>5 DEF Making!DetailedAnswer, Making!DetailedFails
    <2> QED
      BY <2>1, <2>2, <2>4, <2>5, <2>6, WorkSends
  <1>6. ASSUME NEW w \in Handlers, NEW m \in Making!Modes, Making!DetailedHit(w, m) \/ Making!DetailedMiss(w, m)
        PROVE  MadeInv'
    <2>1. <<"status", "result", "done">> \in Seq(Event)
      BY DEF Event, Final
    <2>2. CASE Making!DetailedHit(w, m)
      <3> DEFINE q == [Making!Idle EXCEPT !.op = "detailed", !.step = "ended", !.what = m,
                                          !.sent = <<"status", "result", "done">>]
      <3>1. q \in Request /\ q.op = "detailed"
        BY <2>1, IdleIs DEF Request
      <3>2. Making!Begins(w, q)
        BY <2>2 DEF Making!DetailedHit
      <3> HIDE DEF q
      <3> QED
        BY <3>1, <3>2, WorkBegins DEF MakingOK
    <2>3. CASE Making!DetailedMiss(w, m)
      <3> DEFINE q == [Making!Idle EXCEPT !.op = "detailed", !.step = "ask", !.what = m]
      <3>1. q \in Request /\ q.op = "detailed"
        BY IdleIs DEF Request
      <3>2. Making!Begins(w, q)
        BY <2>3 DEF Making!DetailedMiss
      <3> HIDE DEF q
      <3> QED
        BY <3>1, <3>2, WorkBegins DEF MakingOK
    <2> QED
      BY <1>6, <2>2, <2>3
  <1>7. ASSUME (\E m \in Making!Modes : Making!SummaryExpires(m)) \/ Making!MindmapExpires
        PROVE  MadeInv'
    <2>1. CachesMade'
      BY <1>1, <1>7 DEF CachesMade, Texted, Making!SummaryExpires, Making!MindmapExpires
    <2>2. UNCHANGED <<rows, abandoned, making>>
      BY <1>7 DEF Making!SummaryExpires, Making!MindmapExpires
    <2> QED
      BY <2>1, <2>2 DEF MadeInv, RowsMade, SlidesRead, HandsMade, Making!At
  <1> QED
    BY <1>2, <1>3, <1>4, <1>5, <1>6, <1>7 DEF Making!Kept

-----------------------------------------------------------------------------
(* Extractions, and their events.                                          *)

LEMMA OpenJoins ==
  ASSUME NEW s \in Seq(Event), Open(s), NEW t \in Seq(Event), Open(t)
  PROVE  s \o t \in Seq(Event) /\ Open(s \o t)
  <1>1. /\ s \o t \in Seq(Event) /\ Len(s \o t) = Len(s) + Len(t) /\ Len(s) \in Nat /\ Len(t) \in Nat
        /\ \A i \in 1..Len(s) + Len(t) : (s \o t)[i] = IF i <= Len(s) THEN s[i] ELSE t[i - Len(s)]
    OBVIOUS
  <1>2. \A i \in 1..Len(s) + Len(t) : i \in 1..Len(s) \/ (~(i <= Len(s)) /\ i - Len(s) \in 1..Len(t))
    BY <1>1
  <1> QED
    BY <1>1, <1>2 DEF Open

LEMMA ToldJoins ==
  ASSUME NEW s \in Seq(Event), Open(s), NEW t \in Seq(Event), Told(t)
  PROVE  s \o t \in Seq(Event) /\ Told(s \o t)
  <1>1. /\ s \o t \in Seq(Event) /\ Len(s \o t) = Len(s) + Len(t) /\ Len(s) \in Nat /\ Len(t) \in Nat
        /\ \A i \in 1..Len(s) + Len(t) : (s \o t)[i] = IF i <= Len(s) THEN s[i] ELSE t[i - Len(s)]
    OBVIOUS
  <1>2. PICK n \in Nat : /\ Len(t) = n + 2 /\ \A i \in 1..n : t[i] \notin Final
                         /\ t[n + 1] \in {"result", "error"} /\ t[n + 2] = "done"
    BY DEF Told
  <1> DEFINE m == Len(s) + n
  <1>3. m \in Nat /\ Len(s \o t) = m + 2
    BY <1>1, <1>2
  <1>4. ASSUME NEW i \in 1..m PROVE (s \o t)[i] \notin Final
    <2>1. i \in 1..Len(s) \/ (~(i <= Len(s)) /\ i - Len(s) \in 1..n)
      BY <1>1, <1>2
    <2>2. i \in 1..Len(s) + Len(t)
      BY <1>1, <1>2
    <2> QED
      BY <1>1, <1>2, <2>1, <2>2 DEF Open
  <1>5. /\ m + 1 \in 1..Len(s) + Len(t) /\ ~(m + 1 <= Len(s)) /\ (m + 1) - Len(s) = n + 1
        /\ m + 2 \in 1..Len(s) + Len(t) /\ ~(m + 2 <= Len(s)) /\ (m + 2) - Len(s) = n + 2
    BY <1>1, <1>2
  <1> HIDE DEF m
  <1>6. (s \o t)[m + 1] \in {"result", "error"} /\ (s \o t)[m + 2] = "done"
    BY <1>1, <1>2, <1>5
  <1> QED
    BY <1>1, <1>3, <1>4, <1>6 DEF Told

LEMMA EndingTells ==
  ASSUME NEW error \in BOOLEAN
  PROVE  Making!Ending(error) \in Seq(Event) /\ Told(Making!Ending(error))
  <1>1. \A i \in 1..0 : FALSE
    OBVIOUS
  <1>2. ASSUME NEW e \in {"result", "error"} PROVE <<e, "done">> \in Seq(Event) /\ Told(<<e, "done">>)
    <2>1. /\ <<e, "done">> \in Seq(Event) /\ Len(<<e, "done">>) = 0 + 2
          /\ <<e, "done">>[0 + 1] = e /\ <<e, "done">>[0 + 2] = "done"
      BY DEF Event, Final
    <2> QED
      BY <1>1, <2>1 DEF Told
  <1>3. Making!Ending(error) = <<"error", "done">> \/ Making!Ending(error) = <<"result", "done">>
    BY DEF Making!Ending
  <1> QED
    BY <1>2, <1>3

LEMMA ExtractionOK == ASSUME MadeInv, Making!Extraction PROVE MadeInv'
  <1>1. making \in [Handlers -> Request] /\ CachesMade
    BY DEF MadeInv, HandsMade
  <1>2. /\ <<"status">> \in Seq(Event) /\ <<"error">> \in Seq(Event) /\ <<"result">> \in Seq(Event)
        /\ Open(<<"status">>)
    BY DEF Event, Final, Open
  <1>3. /\ <<"status", "insight", "status">> \in Seq(Event)
        /\ Open(<<"status", "insight", "status">>)
    BY DEF Event, Final, Open
  <1>4. ASSUME NEW w \in Handlers, NEW what \in Making!Extractions, Making!Extract(w, what) PROVE MadeInv'
    <2> DEFINE q == [Making!Idle EXCEPT !.op = "extract", !.step = "ask", !.what = what]
    <2>1. q \in Request /\ q.op = "extract"
      BY IdleIs DEF Request
    <2>2. Making!Begins(w, q)
      BY <1>4 DEF Making!Extract
    <2> HIDE DEF q
    <2> QED
      BY <2>1, <2>2, WorkBegins DEF MakingOK
  <1>5. ASSUME NEW w \in Handlers, NEW allowed \in BOOLEAN, Making!ExtractCompare(w, allowed) PROVE MadeInv'
    <2>1. CASE allowed
      BY <1>4, <1>5, <2>1 DEF Making!ExtractCompare, Making!Extractions
    <2>2. CASE ~allowed
      <3> DEFINE q == [Making!Idle EXCEPT !.op = "extract", !.step = "ended", !.what = "compare",
                                          !.sent = <<"error">>]
      <3>1. q \in Request /\ q.op = "extract"
        BY <1>2, IdleIs DEF Request, Making!Extractions
      <3>2. Making!Begins(w, q)
        BY <1>5, <2>2 DEF Making!ExtractCompare
      <3> HIDE DEF q
      <3> QED
        BY <3>1, <3>2, WorkBegins DEF MakingOK
    <2> QED
      BY <2>1, <2>2
  <1>6. ASSUME NEW w \in Handlers, NEW what \in Making!Extractions, Making!Stream(w, what) PROVE MadeInv'
    <2> DEFINE q == [Making!Idle EXCEPT !.op = "stream", !.step = "read", !.what = what, !.sent = <<"status">>]
    <2>1. q \in Request /\ q.op = "stream" /\ q.step = "read" /\ q.sent = <<"status">>
      BY <1>2, IdleIs DEF Request
    <2>2. Making!Begins(w, q)
      BY <1>6 DEF Making!Stream
    <2> HIDE DEF q
    <2>3. MakingOK(q)
      BY <1>2, <2>1 DEF MakingOK
    <2> QED
      BY <2>1, <2>2, <2>3, WorkBegins
  <1>7. ASSUME NEW w \in Handlers, Making!Reply(w) PROVE MadeInv'
    <2>1. PICK events \in {<<"result">>, Making!ReplyWithout(w)} : Making!Sends(w, "ended", events)
      BY <1>7 DEF Making!Reply
    <2>2. events \in Seq(Event)
      BY <1>2 DEF Making!ReplyWithout
    <2>3. making[w] \in Request /\ making[w].op = "extract"
      BY <1>1, <1>7 DEF Making!Reply, Making!At
    <2>4. MakingOK([making[w] EXCEPT !.step = "ended", !.sent = @ \o events])
      BY <2>3 DEF MakingOK, Request
    <2>5. CachesMade' /\ UNCHANGED <<rows, abandoned>>
      BY <1>1, <1>7 DEF CachesMade, Making!Reply
    <2> QED
      BY <2>1, <2>2, <2>4, <2>5, WorkSends
  <1>8. ASSUME NEW w \in Handlers, Making!StreamReads(w) \/ Making!StreamAnswers(w) PROVE MadeInv'
    <2>1. /\ making[w] \in Request /\ making[w].op = "stream" /\ making[w].step \in {"read", "ask"}
          /\ making[w].sent \in Seq(Event) /\ Open(making[w].sent)
      BY <1>1, <1>8 DEF Making!StreamReads, Making!StreamAnswers, Making!At, MadeInv, HandsMade, MakingOK, Request
    <2>2. CachesMade' /\ UNCHANGED <<rows, abandoned>>
      BY <1>1, <1>8 DEF CachesMade, Making!StreamReads, Making!StreamAnswers
    <2>3. ASSUME NEW events \in Seq(Event), NEW next \in {"ask", "ended"}, Making!Sends(w, next, events),
                 next = "ask" => Open(making[w].sent \o events),
                 next = "ended" => Told(making[w].sent \o events)
          PROVE  MadeInv'
      <3> DEFINE q == [making[w] EXCEPT !.step = next, !.sent = @ \o events]
      <3>1. q.step = next /\ q.sent = making[w].sent \o events
        BY <2>1 DEF Request
      <3>2. MakingOK(q)
        BY <2>3, <3>1 DEF MakingOK
      <3> QED
        BY <2>2, <2>3, <3>2, WorkSends
    <2>4. CASE Making!Sends(w, "ask", <<"status", "insight", "status">>)
      BY <1>3, <2>1, <2>3, <2>4, OpenJoins
    <2>5. CASE \E error \in BOOLEAN : Making!Sends(w, "ended", <<"status">> \o Making!Ending(error))
      <3>1. PICK error \in BOOLEAN : Making!Sends(w, "ended", <<"status">> \o Making!Ending(error))
        BY <2>5
      <3> DEFINE events == <<"status">> \o Making!Ending(error)
      <3>2. events \in Seq(Event) /\ Told(events)
        BY <1>2, EndingTells, ToldJoins
      <3>3. Making!Sends(w, "ended", events)
        BY <3>1
      <3> HIDE DEF events
      <3>4. Told(making[w].sent \o events)
        BY <2>1, <3>2, ToldJoins
      <3> QED
        BY <2>3, <3>2, <3>3, <3>4
    <2>6. CASE Making!Sends(w, "ended", Making!Ending(TRUE))
      <3>1. Making!Ending(TRUE) \in Seq(Event) /\ Told(Making!Ending(TRUE))
        BY EndingTells
      <3>2. Told(making[w].sent \o Making!Ending(TRUE))
        BY <2>1, <3>1, ToldJoins
      <3> QED
        BY <2>3, <2>6, <3>1, <3>2
    <2> QED
      BY <1>8, <2>4, <2>5, <2>6 DEF Making!StreamReads, Making!StreamAnswers
  <1>9. ASSUME NEW w \in Handlers, Making!Close(w) PROVE MadeInv'
    BY <1>9, WorkLeaves DEF Making!Close, MadeInv, CachesMade
  <1> QED
    BY <1>4, <1>5, <1>6, <1>7, <1>8, <1>9
    DEF Making!Extraction, Making!ExtractKeywords, Making!ExtractFormulas, Making!ExtractMindMap,
        Making!ExtractTimeline, Making!ExtractKeywordsStream, Making!ExtractFormulasStream,
        Making!ExtractTimelineStream, Making!ExtractMindMapStream, Making!ExtractCompareStream,
        Making!Extractions

-----------------------------------------------------------------------------
LEMMA MaterialGoesOn == ASSUME MadeInv, [Making!Next]_(Making!vars) PROVE MadeInv'
  <1>1. CASE UNCHANGED Making!vars
    BY <1>1 DEF Making!vars, MadeInv, RowsMade, SlidesRead, HandsMade, CachesMade, Making!At
  <1> QED
    BY <1>1, GenerationOK, JobOK, KeptOK, ExtractionOK, RestartOK DEF Making!Next

LEMMA MaterialStart == ASSUME Making!Init PROVE MadeInv
  <1>1. rows \in [Making!Kinds -> Seq(MadeRow)] /\ \A k \in Making!Kinds : Len(rows[k]) = 0
    BY DEF Making!Init
  <1>2. "slides" \in Making!Kinds
    BY DEF Making!Kinds
  <1>3. RowsMade /\ SlidesRead
    BY <1>1, <1>2, MakingConstants DEF RowsMade, SlidesRead
  <1>4. HandsMade
    BY IdleIs DEF Making!Init, HandsMade
  <1>5. CachesMade
    BY DEF Making!Init, CachesMade, Texted
  <1> QED
    BY <1>3, <1>4, <1>5 DEF MadeInv

MaterialSide == side = "material" => MadeInv

LEMMA MaterialSideHolds == AssistantSpec => []MaterialSide
  <1>1. AssistantInit => MaterialSide
    BY MaterialStart DEF AssistantInit, MaterialSide
  <1>2. MaterialSide /\ [AssistantNext]_assistantVars => MaterialSide'
    <2> SUFFICES ASSUME MaterialSide, [AssistantNext]_assistantVars, side' = "material" PROVE MadeInv'
      BY DEF MaterialSide
    <2>1. side = "material" /\ [Making!Next]_(Making!vars)
      BY DEF AssistantNext, assistantVars, materialVars, Making!vars
    <2> QED
      BY <2>1, MaterialGoesOn DEF MaterialSide
  <1> QED
    BY <1>1, <1>2, PTL DEF AssistantSpec

(* The same operators, seen through the instance.                          *)
LEMMA MadeCounts == \A S : Making!Cardinality(S) = Cardinality(S)
  BY DEF Making!Cardinality, Cardinality

LEMMA ToldOnce ==
  ASSUME NEW s \in Seq(Event), Told(s)
  PROVE  /\ Making!Count(s, "done") = 1
         /\ Making!Count(s, "result") + Making!Count(s, "error") = 1
         /\ s[Len(s)] = "done"
  <1>1. PICK n \in Nat : /\ Len(s) = n + 2 /\ \A i \in 1..n : s[i] \notin Final
                         /\ s[n + 1] \in {"result", "error"} /\ s[n + 2] = "done"
    BY DEF Told
  <1>2. DOMAIN s = 1..n + 2 /\ \A i \in 1..n + 2 : i \in 1..n \/ i = n + 1 \/ i = n + 2
    BY <1>1
  <1>3. \A i \in 1..n : s[i] # "done" /\ s[i] # "result" /\ s[i] # "error"
    BY <1>1 DEF Final
  <1>4. n + 1 \in 1..n + 2 /\ n + 2 \in 1..n + 2 /\ n + 1 # n + 2
    BY <1>1
  <1>5. {i \in DOMAIN s : s[i] = "done"} = {n + 2}
    BY <1>1, <1>2, <1>3, <1>4
  <1>6. CASE s[n + 1] = "result"
    <2>1. {i \in DOMAIN s : s[i] = "result"} = {n + 1} /\ {i \in DOMAIN s : s[i] = "error"} = {}
      BY <1>1, <1>2, <1>3, <1>4, <1>6
    <2>2. Cardinality({n + 1}) = 1 /\ Cardinality({}) = 0 /\ Cardinality({n + 2}) = 1
      BY FS_Singleton, FS_EmptySet
    <2>3. Making!Count(s, "done") = 1 /\ Making!Count(s, "result") = 1 /\ Making!Count(s, "error") = 0
      BY <1>5, <2>1, <2>2, MadeCounts DEF Making!Count
    <2> QED
      BY <1>1, <2>3
  <1>7. CASE s[n + 1] = "error"
    <2>1. {i \in DOMAIN s : s[i] = "error"} = {n + 1} /\ {i \in DOMAIN s : s[i] = "result"} = {}
      BY <1>1, <1>2, <1>3, <1>4, <1>7
    <2>2. Cardinality({n + 1}) = 1 /\ Cardinality({}) = 0 /\ Cardinality({n + 2}) = 1
      BY FS_Singleton, FS_EmptySet
    <2>3. Making!Count(s, "done") = 1 /\ Making!Count(s, "result") = 0 /\ Making!Count(s, "error") = 1
      BY <1>5, <2>1, <2>2, MadeCounts DEF Making!Count
    <2> QED
      BY <1>1, <2>3
  <1> QED
    BY <1>1, <1>6, <1>7

(* What the invariant says of the material.                                *)
LEMMA MadeMeans ==
  ASSUME MadeInv
  PROVE  /\ Making!TypeOK
         /\ Making!SlidesAreMadeOnce /\ Making!PendingIsAtWork
         /\ Making!OverviewIsWhole /\ Making!QuickIsStructured /\ Making!StreamEndsOnce
  <1>1. \A k \in Making!Kinds : rows[k] \in Seq(MadeRow) /\ Making!Rows(k) = 1..Len(rows[k])
    BY DEF MadeInv, RowsMade, Making!Rows
  <1>2. "slides" \in Making!Kinds /\ "audio" \in Making!Kinds
    BY DEF Making!Kinds
  <1>3. making \in [Handlers -> Request] /\ \A w \in Handlers : making[w].step \in {"idle", "insert", "ask", "read", "ended"}
    BY DEF MadeInv, HandsMade, Request
  <1>4. Making!TypeOK
    BY <1>1, <1>3 DEF Making!TypeOK, MadeRow, MadeInv, CachesMade, Texted
  <1>5. Making!SlidesAreMadeOnce
    <2>1. \A i \in Making!Rows("slides") \ {1} : i \in 2..Len(rows["slides"])
      BY <1>1, <1>2
    <2> QED
      BY <2>1 DEF Making!SlidesAreMadeOnce, MadeInv, RowsMade
  <1>6. Making!PendingIsAtWork
    BY <1>1 DEF Making!PendingIsAtWork, MadeInv, RowsMade
  <1>7. Making!OverviewIsWhole
    BY <1>1, <1>2 DEF Making!OverviewIsWhole, MadeInv, RowsMade, MadeOK
  <1>8. Making!QuickIsStructured
    BY DEF Making!QuickIsStructured, MadeInv, CachesMade
  <1>9. Making!StreamEndsOnce
    BY <1>3, ToldOnce DEF Making!StreamEndsOnce, Making!At, MadeInv, HandsMade, MakingOK, Request
  <1> QED
    BY <1>4, <1>5, <1>6, <1>7, <1>8, <1>9

-----------------------------------------------------------------------------
(* How a document is cut: runs of blocks, and what they weigh.             *)

Block == [type : Cutting!Headings \cup {"paragraph", "table", "list_item"}, tokens : Nat]

(* The numbers after lo, up to hi.                                         *)
Run(lo, hi) == [i \in 1..(hi - lo) |-> lo + i]

LEMMA RunIs ==
  ASSUME NEW lo \in Nat, NEW hi \in Nat, lo <= hi
  PROVE  /\ Run(lo, hi) \in Seq(lo + 1..hi) /\ Run(lo, hi) \in Seq(Nat)
         /\ Len(Run(lo, hi)) = hi - lo /\ DOMAIN Run(lo, hi) = 1..(hi - lo)
         /\ \A i \in 1..(hi - lo) : Run(lo, hi)[i] = lo + i
         /\ lo < hi => Run(lo, hi)[hi - lo] = hi /\ Run(lo, hi)[1] = lo + 1
         /\ lo = hi <=> Run(lo, hi) = << >>
  <1>1. hi - lo \in Nat /\ \A i \in 1..(hi - lo) : lo + i \in lo + 1..hi /\ lo + i \in Nat
    OBVIOUS
  <1>2. /\ Run(lo, hi) \in Seq(lo + 1..hi) /\ Run(lo, hi) \in Seq(Nat)
        /\ Len(Run(lo, hi)) = hi - lo /\ DOMAIN Run(lo, hi) = 1..(hi - lo)
        /\ \A i \in 1..(hi - lo) : Run(lo, hi)[i] = lo + i
    BY <1>1 DEF Run
  <1>3. lo = hi <=> Run(lo, hi) = << >>
    BY <1>1, <1>2
  <1>4. lo < hi => hi - lo \in 1..(hi - lo) /\ 1 \in 1..(hi - lo)
    BY <1>1
  <1> QED
    BY <1>2, <1>3, <1>4

LEMMA RunHas ==
  ASSUME NEW lo \in Nat, NEW n \in Nat
  PROVE  /\ Run(lo, lo + n) \in Seq(Nat) /\ Len(Run(lo, lo + n)) = n
         /\ \A i \in 1..n : Run(lo, lo + n)[i] = lo + i
  <1>1. lo + n \in Nat /\ lo <= lo + n /\ (lo + n) - lo = n
    OBVIOUS
  <1> QED
    BY <1>1, RunIs

LEMMA SameSequence ==
  ASSUME NEW T, NEW s \in Seq(T), NEW R, NEW t \in Seq(R), Len(s) = Len(t), \A i \in 1..Len(s) : s[i] = t[i]
  PROVE  s = t
  <1>1. s = [i \in 1..Len(s) |-> s[i]] /\ t = [i \in 1..Len(t) |-> t[i]]
    OBVIOUS
  <1>2. [i \in 1..Len(s) |-> s[i]] = [i \in 1..Len(s) |-> t[i]]
    OBVIOUS
  <1> QED
    BY <1>1, <1>2

LEMMA RunGrows ==
  ASSUME NEW lo \in Nat, NEW hi \in Nat, lo <= hi
  PROVE  /\ Append(Run(lo, hi), hi + 1) = Run(lo, hi + 1)
         /\ SubSeq(Run(lo, hi + 1), 1, Len(Run(lo, hi + 1)) - 1) = Run(lo, hi)
         /\ <<hi + 1>> = Run(hi, hi + 1)
  <1> DEFINE s == Run(lo, hi)
             t == Run(lo, hi + 1)
             n == hi - lo
  <1>1. /\ s \in Seq(Nat) /\ Len(s) = n /\ n \in Nat /\ hi + 1 \in Nat
        /\ \A i \in 1..n : s[i] = lo + i
    BY RunIs
  <1>2. /\ t \in Seq(Nat) /\ Len(t) = n + 1
        /\ \A i \in 1..n + 1 : t[i] = lo + i
    <2>1. n + 1 \in Nat /\ hi + 1 = lo + (n + 1)
      BY <1>1
    <2> HIDE DEF n
    <2>2. /\ Run(lo, lo + (n + 1)) \in Seq(Nat) /\ Len(Run(lo, lo + (n + 1))) = n + 1
          /\ \A i \in 1..n + 1 : Run(lo, lo + (n + 1))[i] = lo + i
      BY <2>1, RunHas, Zenon
    <2> QED
      BY <2>1, <2>2
  <1>3. lo + (n + 1) = hi + 1
    BY <1>1
  <1> HIDE DEF s, t, n
  <1>4. Append(s, hi + 1) = t
    <2>1. Append(s, hi + 1) \in Seq(Nat) /\ Len(Append(s, hi + 1)) = n + 1
      BY <1>1
    <2>2. \A i \in 1..n + 1 : Append(s, hi + 1)[i] = t[i]
      BY <1>1, <1>2, <1>3
    <2> QED
      BY <1>2, <2>1, <2>2, SameSequence
  <1>5. SubSeq(t, 1, Len(t) - 1) = s
    <2>1. /\ SubSeq(t, 1, n) \in Seq(Nat) /\ Len(SubSeq(t, 1, n)) = n
          /\ \A i \in 1..n : SubSeq(t, 1, n)[i] = t[i]
      BY <1>1, <1>2
    <2>2. \A i \in 1..n : SubSeq(t, 1, n)[i] = s[i]
      BY <1>1, <1>2, <2>1
    <2>3. Len(t) - 1 = n
      BY <1>1, <1>2
    <2> QED
      BY <1>1, <2>1, <2>2, <2>3, SameSequence
  <1>6. <<hi + 1>> = Run(hi, hi + 1)
    <2>1. /\ <<hi + 1>> \in Seq(Nat) /\ Len(<<hi + 1>>) = 1 /\ <<hi + 1>>[1] = hi + 1
      OBVIOUS
    <2>2. Run(hi, hi + 1) \in Seq(Nat) /\ Len(Run(hi, hi + 1)) = 1 /\ Run(hi, hi + 1)[1] = hi + 1
      <3>1. 1 \in Nat /\ 1 \in 1..1
        OBVIOUS
      <3> QED
        BY <3>1, RunHas, Zenon
    <2>3. \A i \in 1..1 : i = 1
      OBVIOUS
    <2> QED
      BY <2>1, <2>2, <2>3, SameSequence
  <1> QED
    BY <1>4, <1>5, <1>6 DEF s, t

LEMMA RunsJoin ==
  ASSUME NEW lo \in Nat, NEW hi \in Nat, lo <= hi
  PROVE  Run(0, lo) \o Run(lo, hi) = Run(0, hi)
  <1> DEFINE s == Run(0, lo)
             t == Run(lo, hi)
             u == Run(0, hi)
  <1>1. s \in Seq(Nat) /\ Len(s) = lo /\ \A i \in 1..lo : s[i] = i
    <2>1. 0 \in Nat /\ lo = 0 + lo /\ \A i \in 1..lo : 0 + i = i
      OBVIOUS
    <2>2. /\ Run(0, 0 + lo) \in Seq(Nat) /\ Len(Run(0, 0 + lo)) = lo
          /\ \A i \in 1..lo : Run(0, 0 + lo)[i] = 0 + i
      BY <2>1, RunHas, Zenon
    <2> QED
      BY <2>1, <2>2
  <1>2. u \in Seq(Nat) /\ Len(u) = hi /\ \A i \in 1..hi : u[i] = i
    <2>1. 0 \in Nat /\ hi = 0 + hi /\ \A i \in 1..hi : 0 + i = i
      OBVIOUS
    <2>2. /\ Run(0, 0 + hi) \in Seq(Nat) /\ Len(Run(0, 0 + hi)) = hi
          /\ \A i \in 1..hi : Run(0, 0 + hi)[i] = 0 + i
      BY <2>1, RunHas, Zenon
    <2> QED
      BY <2>1, <2>2
  <1>3. t \in Seq(Nat) /\ Len(t) = hi - lo /\ \A i \in 1..(hi - lo) : t[i] = lo + i
    BY RunIs
  <1> HIDE DEF s, t, u
  <1>4. /\ s \o t \in Seq(Nat) /\ Len(s \o t) = Len(s) + Len(t)
        /\ \A i \in 1..Len(s) + Len(t) : (s \o t)[i] = IF i <= Len(s) THEN s[i] ELSE t[i - Len(s)]
    <2>1. s \in Seq(Nat) /\ t \in Seq(Nat)
      BY <1>1, <1>3
    <2> QED
      BY <2>1
  <1>5. Len(s) + Len(t) = hi
    BY <1>1, <1>3
  <1>6. ASSUME NEW i \in 1..hi PROVE (s \o t)[i] = i
    <2>1. CASE i <= lo
      BY <1>1, <1>4, <1>5, <2>1
    <2>2. CASE ~(i <= lo)
      <3>1. i - lo \in 1..(hi - lo) /\ lo + (i - lo) = i
        BY <2>2
      <3> QED
        BY <1>1, <1>3, <1>4, <1>5, <2>2, <3>1
    <2> QED
      BY <2>1, <2>2
  <1>7. s \o t = u
    BY <1>2, <1>4, <1>5, <1>6, SameSequence
  <1> QED
    BY <1>7 DEF s, t, u

(* The weight of a text: there is a function that sums it up.              *)
SumUpTo(f, bs, text, k) ==
    f = [n \in 0..k |-> IF n = 0 THEN 0 ELSE f[n - 1] + bs[text[n]].tokens]

LEMMA SumExists ==
  ASSUME NEW bs, NEW text
  PROVE  \A k \in Nat : \E f : SumUpTo(f, bs, text, k)
  <1> DEFINE Without == {k \in Nat : ~\E f : SumUpTo(f, bs, text, k)}
  <1> SUFFICES ASSUME Without # {} PROVE FALSE
    OBVIOUS
  <1>1. PICK k \in Nat : k \in Without /\ \A m \in Without : k <= m
    BY LeastNumber
  <1>2. CASE k = 0
    <2>1. SumUpTo([n \in 0..0 |-> 0], bs, text, 0)
      BY DEF SumUpTo
    <2> QED
      BY <1>1, <1>2, <2>1
  <1>3. CASE k # 0
    <2>1. k - 1 \in Nat /\ k - 1 \notin Without
      BY <1>1, <1>3
    <2>2. PICK f : SumUpTo(f, bs, text, k - 1)
      BY <2>1
    <2> DEFINE last == f[k - 1] + bs[text[k]].tokens
               g == [n \in 0..k |-> IF n = k THEN last ELSE f[n]]
    <2>3. f = [n \in 0..k - 1 |-> IF n = 0 THEN 0 ELSE f[n - 1] + bs[text[n]].tokens]
      BY <2>2 DEF SumUpTo
    <2>4. \A n \in 0..k - 1 : g[n] = f[n] /\ n # k /\ n \in 0..k
      BY <1>1, <1>3
    <2>5. \A n \in 0..k : g[n] = IF n = 0 THEN 0 ELSE g[n - 1] + bs[text[n]].tokens
      <3> SUFFICES ASSUME NEW n \in 0..k
                   PROVE  g[n] = IF n = 0 THEN 0 ELSE g[n - 1] + bs[text[n]].tokens
        OBVIOUS
      <3>1. CASE n = k
        <4>1. g[k - 1] = f[k - 1] /\ g[k] = last
          BY <1>1, <1>3, <2>4
        <4> QED
          BY <1>3, <3>1, <4>1
      <3>2. CASE n # k
        <4>1. n \in 0..k - 1
          BY <1>1, <3>2
        <4>2. f[n] = IF n = 0 THEN 0 ELSE f[n - 1] + bs[text[n]].tokens
          BY <2>3, <4>1
        <4>3. n # 0 => n - 1 \in 0..k - 1
          BY <4>1, <1>1
        <4> QED
          BY <2>4, <4>1, <4>2, <4>3
      <3> QED
        BY <3>1, <3>2
    <2>6. g = [n \in 0..k |-> g[n]]
      OBVIOUS
    <2> HIDE DEF g
    <2>7. SumUpTo(g, bs, text, k)
      BY <2>5, <2>6 DEF SumUpTo
    <2> QED
      BY <1>1, <2>7
  <1> QED
    BY <1>2, <1>3

Weight(bs, text) ==
    LET upTo[k \in 0..Len(text)] ==
            IF k = 0 THEN 0 ELSE upTo[k - 1] + bs[text[k]].tokens
    IN  upTo[Len(text)]

LEMMA TokensAre == \A text : Cutting!TokensOf(text) = Weight(blocks, text)
  BY DEF Cutting!TokensOf, Weight

LEMMA WeightIs ==
  ASSUME NEW bs, NEW text, Len(text) \in Nat
  PROVE  \E f : SumUpTo(f, bs, text, Len(text)) /\ Weight(bs, text) = f[Len(text)]
  <1> DEFINE k == Len(text)
             g == CHOOSE f : f = [n \in 0..k |-> IF n = 0 THEN 0 ELSE f[n - 1] + bs[text[n]].tokens]
  <1>1. Weight(bs, text) = g[k]
    BY DEF Weight
  <1>2. PICK f : SumUpTo(f, bs, text, k)
    BY SumExists
  <1>3. SumUpTo(g, bs, text, k)
    BY <1>2 DEF SumUpTo
  <1> QED
    BY <1>1, <1>3

LEMMA SumsAgree ==
  ASSUME NEW f, NEW bs, NEW text, NEW k \in Nat, SumUpTo(f, bs, text, k),
         NEW g, NEW cs, NEW more, NEW m \in Nat, SumUpTo(g, cs, more, m), k <= m,
         \A n \in 1..k : bs[text[n]].tokens = cs[more[n]].tokens
  PROVE  f[k] = g[k]
  <1> DEFINE Wrong == {n \in 0..k : f[n] # g[n]}
  <1>1. /\ \A n \in 0..k : f[n] = IF n = 0 THEN 0 ELSE f[n - 1] + bs[text[n]].tokens
        /\ \A n \in 0..m : g[n] = IF n = 0 THEN 0 ELSE g[n - 1] + cs[more[n]].tokens
    BY DEF SumUpTo
  <1> SUFFICES ASSUME Wrong # {} PROVE FALSE
    OBVIOUS
  <1>2. Wrong \in SUBSET Nat
    OBVIOUS
  <1>3. PICK n \in Wrong : \A j \in Wrong : n <= j
    BY <1>2, LeastNumber
  <1>4. n \in 0..k /\ n \in 0..m
    BY <1>3
  <1>5. n # 0
    BY <1>1, <1>3, <1>4
  <1>6. n \in 1..k /\ n - 1 \in 0..k /\ n - 1 \notin Wrong
    BY <1>3, <1>4, <1>5
  <1> QED
    BY <1>1, <1>3, <1>4, <1>5, <1>6

LEMMA WeightIsNat ==
  ASSUME NEW bs \in Seq(Block), NEW text \in Seq(1..Len(bs))
  PROVE  Weight(bs, text) \in Nat
  <1>1. Len(text) \in Nat
    OBVIOUS
  <1>2. PICK f : SumUpTo(f, bs, text, Len(text)) /\ Weight(bs, text) = f[Len(text)]
    BY <1>1, WeightIs
  <1>3. \A n \in 0..Len(text) : f[n] = IF n = 0 THEN 0 ELSE f[n - 1] + bs[text[n]].tokens
    BY <1>2 DEF SumUpTo
  <1>4. \A n \in 1..Len(text) : bs[text[n]].tokens \in Nat
    <2>1. \A n \in 1..Len(text) : text[n] \in 1..Len(bs)
      OBVIOUS
    <2>2. \A i \in 1..Len(bs) : bs[i] \in Block
      OBVIOUS
    <2> QED
      BY <2>1, <2>2 DEF Block
  <1> DEFINE Wrong == {n \in 0..Len(text) : f[n] \notin Nat}
  <1>5. Wrong = {}
    <2> SUFFICES ASSUME Wrong # {} PROVE FALSE
      OBVIOUS
    <2>1. Wrong \in SUBSET Nat
      BY <1>1
    <2>2. PICK n \in Wrong : \A j \in Wrong : n <= j
      BY <2>1, LeastNumber
    <2>3. n \in 0..Len(text) /\ n # 0
      BY <1>3, <2>2
    <2>4. n \in 1..Len(text) /\ n - 1 \in 0..Len(text) /\ n - 1 \notin Wrong
      BY <1>1, <2>2, <2>3
    <2>5. f[n - 1] \in Nat /\ bs[text[n]].tokens \in Nat
      BY <1>4, <2>4
    <2>6. f[n] = f[n - 1] + bs[text[n]].tokens
      BY <1>3, <2>3
    <2>7. f[n] \in Nat
      BY <2>5, <2>6
    <2> QED
      BY <2>2, <2>7
  <1> QED
    BY <1>1, <1>2, <1>5

LEMMA WeightOfNothing == \A bs : Weight(bs, << >>) = 0
  <1> SUFFICES ASSUME NEW bs PROVE Weight(bs, << >>) = 0
    OBVIOUS
  <1>1. Len(<< >>) = 0
    OBVIOUS
  <1>2. PICK f : SumUpTo(f, bs, << >>, Len(<< >>)) /\ Weight(bs, << >>) = f[Len(<< >>)]
    BY <1>1, WeightIs
  <1> QED
    BY <1>1, <1>2 DEF SumUpTo

(* Later blocks do not change it.                                          *)
LEMMA WeightStays ==
  ASSUME NEW bs, NEW cs, NEW text, Len(text) \in Nat,
         \A n \in 1..Len(text) : cs[text[n]] = bs[text[n]]
  PROVE  Weight(cs, text) = Weight(bs, text)
  <1>1. PICK f : SumUpTo(f, bs, text, Len(text)) /\ Weight(bs, text) = f[Len(text)]
    BY WeightIs
  <1>2. PICK g : SumUpTo(g, cs, text, Len(text)) /\ Weight(cs, text) = g[Len(text)]
    BY WeightIs
  <1> QED
    BY <1>1, <1>2, SumsAgree

LEMMA WeightGrows ==
  ASSUME NEW bs, NEW lo \in Nat, NEW hi \in Nat, lo <= hi
  PROVE  Weight(bs, Run(lo, hi + 1)) = Weight(bs, Run(lo, hi)) + bs[hi + 1].tokens
  <1> DEFINE s == Run(lo, hi)
             t == Run(lo, hi + 1)
             n == hi - lo
  <1>1. n \in Nat /\ Len(s) = n /\ \A i \in 1..n : s[i] = lo + i
    BY RunIs
  <1>2. t \in Seq(Nat) /\ Len(t) = n + 1 /\ \A i \in 1..n + 1 : t[i] = lo + i
    <2>1. n + 1 \in Nat /\ hi + 1 = lo + (n + 1)
      BY <1>1
    <2> HIDE DEF n
    <2>2. /\ Run(lo, lo + (n + 1)) \in Seq(Nat) /\ Len(Run(lo, lo + (n + 1))) = n + 1
          /\ \A i \in 1..n + 1 : Run(lo, lo + (n + 1))[i] = lo + i
      BY <2>1, RunHas, Zenon
    <2> QED
      BY <2>1, <2>2
  <1>3. lo + (n + 1) = hi + 1 /\ n + 1 \in 1..n + 1 /\ n + 1 \in 0..n + 1 /\ n + 1 # 0 /\ (n + 1) - 1 = n
        /\ n + 1 \in Nat /\ n <= n + 1 /\ \A i \in 1..n : i \in 1..n + 1
    BY <1>1
  <1> HIDE DEF s, t, n
  <1>4. PICK f : SumUpTo(f, bs, s, n) /\ Weight(bs, s) = f[n]
    BY <1>1, WeightIs
  <1>5. PICK g : SumUpTo(g, bs, t, n + 1) /\ Weight(bs, t) = g[n + 1]
    <2>1. Len(t) \in Nat
      BY <1>2, <1>3
    <2>2. \E g : SumUpTo(g, bs, t, Len(t)) /\ Weight(bs, t) = g[Len(t)]
      BY <2>1, WeightIs
    <2> QED
      BY <1>2, <2>2
  <1>6. f[n] = g[n]
    <2>1. \A i \in 1..n : bs[s[i]].tokens = bs[t[i]].tokens
      BY <1>1, <1>2, <1>3
    <2> QED
      BY <1>1, <1>3, <1>4, <1>5, <2>1, SumsAgree
  <1>7. g[n + 1] = g[n] + bs[t[n + 1]].tokens
    BY <1>3, <1>5 DEF SumUpTo
  <1>8. Weight(bs, t) = Weight(bs, s) + bs[hi + 1].tokens
    BY <1>2, <1>3, <1>4, <1>5, <1>6, <1>7
  <1> QED
    BY <1>8 DEF s, t


-----------------------------------------------------------------------------
(* Sections: the last heading of a level since one above it.               *)

LastIs(bs, type, from, to, m) ==
    /\ m \in Nat
    /\ m = 0 => \A i \in from..to : bs[i].type # type
    /\ m # 0 => /\ m \in from..to /\ bs[m].type = type
                /\ \A i \in from..to : bs[i].type = type => i <= m

LEMMA LastIsUnique ==
  ASSUME NEW type, NEW from \in Nat \ {0}, NEW to \in Nat, NEW m, LastIs(blocks, type, from, to, m)
  PROVE  Cutting!LastOf(type, from, to) = m
  <1> DEFINE found == {i \in from..to : blocks[i].type = type}
  <1>1. CASE m = 0
    <2>1. found = {}
      BY <1>1 DEF LastIs
    <2> QED
      BY <1>1, <2>1 DEF Cutting!LastOf
  <1>2. CASE m # 0
    <2>1. m \in found /\ \A j \in found : j <= m
      BY <1>2 DEF LastIs
    <2>2. found # {} /\ \A i \in found : i \in Nat
      BY <2>1
    <2> DEFINE c == CHOOSE i \in found : \A j \in found : j <= i
    <2>3. c \in found /\ \A j \in found : j <= c
      BY <2>1
    <2>4. c <= m /\ m <= c /\ c \in Nat /\ m \in Nat
      BY <2>1, <2>2, <2>3
    <2>5. c = m
      BY <2>4
    <2>6. Cutting!LastOf(type, from, to) = c
      BY <2>2 DEF Cutting!LastOf
    <2> QED
      BY <2>5, <2>6
  <1> QED
    BY <1>1, <1>2

(* Up to the n-th block c names the headings of each level.                *)
Under(c) == (IF c[2] = 0 THEN c[1] ELSE c[2]) + 1
Section(bs, n, c) ==
    /\ c \in Seq(0..n) /\ Len(c) = 3
    /\ LastIs(bs, "heading1", 1, n, c[1])
    /\ LastIs(bs, "heading2", c[1] + 1, n, c[2])
    /\ LastIs(bs, "heading3", Under(c), n, c[3])

LEMMA ThreeOf ==
  ASSUME NEW T, NEW s \in Seq(T), Len(s) = 3
  PROVE  s[1] \in T /\ s[2] \in T /\ s[3] \in T /\ s = <<s[1], s[2], s[3]>>
  <1>1. \A i \in 1..Len(s) : s[i] \in T
    OBVIOUS
  <1>2. 1 \in 1..Len(s) /\ 2 \in 1..Len(s) /\ 3 \in 1..Len(s)
    OBVIOUS
  <1>3. s = <<s[1], s[2], s[3]>>
    OBVIOUS
  <1> QED
    BY <1>1, <1>2, <1>3

LEMMA CrumbsAre ==
  ASSUME NEW n \in Nat, NEW c \in Seq(0..n), Len(c) = 3
  PROVE  /\ c[1] \in 0..n /\ c[2] \in 0..n /\ c[3] \in 0..n /\ Under(c) \in 1..n + 1
         /\ c = <<c[1], c[2], c[3]>>
  <1>1. c[1] \in 0..n /\ c[2] \in 0..n /\ c[3] \in 0..n
    BY ThreeOf
  <1>2. c = <<c[1], c[2], c[3]>>
    BY ThreeOf
  <1> QED
    BY <1>1, <1>2 DEF Under

LEMMA SectionStays ==
  ASSUME NEW bs, NEW cs, NEW n \in Nat, NEW c, Section(bs, n, c), \A i \in 1..n : cs[i] = bs[i]
  PROVE  Section(cs, n, c)
  <1>1. /\ c \in Seq(0..n) /\ Len(c) = 3
        /\ c[1] \in 0..n /\ c[2] \in 0..n /\ c[3] \in 0..n /\ Under(c) \in 1..n + 1
    BY CrumbsAre DEF Section
  <1>2. ASSUME NEW type, NEW from \in 1..n + 1, NEW m, LastIs(bs, type, from, n, m)
        PROVE  LastIs(cs, type, from, n, m)
    <2>1. \A i \in from..n : cs[i] = bs[i]
      OBVIOUS
    <2> QED
      BY <1>2, <2>1 DEF LastIs
  <1>3. 1 \in 1..n + 1 /\ c[1] + 1 \in 1..n + 1
    BY <1>1
  <1> QED
    BY <1>1, <1>2, <1>3 DEF Section

LEMMA LastGrows ==
  ASSUME NEW bs, NEW cs, NEW n \in Nat, \A i \in 1..n : cs[i] = bs[i], NEW type, NEW from \in 1..n + 1
  PROVE  /\ \A m : LastIs(bs, type, from, n, m) /\ cs[n + 1].type # type => LastIs(cs, type, from, n + 1, m)
         /\ cs[n + 1].type = type => LastIs(cs, type, from, n + 1, n + 1)
         /\ LastIs(cs, type, n + 2, n + 1, 0)
  <1>1. \A i \in from..n + 1 : i \in from..n \/ i = n + 1
    OBVIOUS
  <1>2. \A i \in from..n : cs[i] = bs[i] /\ i \in from..n + 1
    OBVIOUS
  <1>3. n + 1 \in from..n + 1 /\ n + 1 # 0 /\ n + 1 \in Nat /\ \A i \in from..n + 1 : i <= n + 1
    OBVIOUS
  <1>4. ASSUME NEW m, LastIs(bs, type, from, n, m), cs[n + 1].type # type PROVE LastIs(cs, type, from, n + 1, m)
    BY <1>1, <1>2, <1>4 DEF LastIs
  <1>5. cs[n + 1].type = type => LastIs(cs, type, from, n + 1, n + 1)
    BY <1>3 DEF LastIs
  <1>6. \A i \in n + 2..n + 1 : FALSE
    OBVIOUS
  <1>7. LastIs(cs, type, n + 2, n + 1, 0)
    BY <1>6 DEF LastIs
  <1> QED
    BY <1>4, <1>5, <1>7

(* One more block: what updateBreadcrumb makes of it.                      *)
LEMMA SectionGrows ==
  ASSUME NEW bs, NEW cs, NEW n \in Nat, NEW c, Section(bs, n, c), \A i \in 1..n : cs[i] = bs[i], NEW d,
         \/ cs[n + 1].type = "heading1" /\ d = <<n + 1, 0, 0>>
         \/ cs[n + 1].type = "heading2" /\ d = <<c[1], n + 1, 0>>
         \/ cs[n + 1].type = "heading3" /\ d = <<c[1], c[2], n + 1>>
         \/ cs[n + 1].type \notin {"heading1", "heading2", "heading3"} /\ d = c
  PROVE  Section(cs, n + 1, d)
  <1>1. /\ c \in Seq(0..n) /\ Len(c) = 3 /\ c = <<c[1], c[2], c[3]>>
        /\ c[1] \in 0..n /\ c[2] \in 0..n /\ c[3] \in 0..n /\ Under(c) \in 1..n + 1
    BY CrumbsAre DEF Section
  <1>2. 1 \in 1..n + 1 /\ c[1] + 1 \in 1..n + 1 /\ n + 1 # 0 /\ (n + 1) + 1 = n + 2
    BY <1>1
  <1>3. ASSUME NEW x \in 0..n + 1, NEW y \in 0..n + 1, NEW z \in 0..n + 1, d = <<x, y, z>>
        PROVE  d \in Seq(0..n + 1) /\ Len(d) = 3 /\ d[1] = x /\ d[2] = y /\ d[3] = z
    BY <1>3
  <1>4. /\ c[1] \in 0..n + 1 /\ c[2] \in 0..n + 1 /\ c[3] \in 0..n + 1 /\ n + 1 \in 0..n + 1 /\ 0 \in 0..n + 1
    BY <1>1
  <1>5. CASE cs[n + 1].type = "heading1" /\ d = <<n + 1, 0, 0>>
    <2>1. d \in Seq(0..n + 1) /\ Len(d) = 3 /\ d[1] = n + 1 /\ d[2] = 0 /\ d[3] = 0
      BY <1>3, <1>4, <1>5
    <2>2. Under(d) = n + 2 /\ d[1] + 1 = n + 2
      BY <1>2, <2>1 DEF Under
    <2> QED
      BY <1>2, <1>5, <2>1, <2>2, LastGrows DEF Section
  <1>6. CASE cs[n + 1].type = "heading2" /\ d = <<c[1], n + 1, 0>>
    <2>1. d \in Seq(0..n + 1) /\ Len(d) = 3 /\ d[1] = c[1] /\ d[2] = n + 1 /\ d[3] = 0
      BY <1>3, <1>4, <1>6
    <2>2. Under(d) = n + 2
      BY <1>2, <2>1 DEF Under
    <2>3. LastIs(bs, "heading1", 1, n, c[1]) /\ cs[n + 1].type # "heading1"
      BY <1>6 DEF Section
    <2>4. LastIs(cs, "heading1", 1, n + 1, d[1])
      BY <1>2, <2>1, <2>3, LastGrows
    <2>5. LastIs(cs, "heading2", d[1] + 1, n + 1, d[2])
      BY <1>2, <1>6, <2>1, LastGrows
    <2>6. LastIs(cs, "heading3", Under(d), n + 1, d[3])
      BY <1>2, <2>1, <2>2, LastGrows
    <2> QED
      BY <2>1, <2>4, <2>5, <2>6 DEF Section
  <1>7. CASE cs[n + 1].type = "heading3" /\ d = <<c[1], c[2], n + 1>>
    <2>1. d \in Seq(0..n + 1) /\ Len(d) = 3 /\ d[1] = c[1] /\ d[2] = c[2] /\ d[3] = n + 1
      BY <1>3, <1>4, <1>7
    <2>2. Under(d) = Under(c)
      BY <2>1 DEF Under
    <2>3. /\ LastIs(bs, "heading1", 1, n, c[1]) /\ cs[n + 1].type # "heading1"
          /\ LastIs(bs, "heading2", c[1] + 1, n, c[2]) /\ cs[n + 1].type # "heading2"
      BY <1>7 DEF Section
    <2>4. LastIs(cs, "heading1", 1, n + 1, d[1])
      BY <1>2, <2>1, <2>3, LastGrows
    <2>5. LastIs(cs, "heading2", d[1] + 1, n + 1, d[2])
      BY <1>2, <2>1, <2>3, LastGrows
    <2>6. LastIs(cs, "heading3", Under(d), n + 1, d[3])
      BY <1>1, <1>7, <2>1, <2>2, LastGrows
    <2> QED
      BY <2>1, <2>4, <2>5, <2>6 DEF Section
  <1>8. CASE cs[n + 1].type \notin {"heading1", "heading2", "heading3"} /\ d = c
    <2>1. d \in Seq(0..n + 1) /\ Len(d) = 3
      BY <1>1, <1>3, <1>4, <1>8
    <2>2. /\ LastIs(bs, "heading1", 1, n, c[1]) /\ cs[n + 1].type # "heading1"
          /\ LastIs(bs, "heading2", c[1] + 1, n, c[2]) /\ cs[n + 1].type # "heading2"
          /\ LastIs(bs, "heading3", Under(c), n, c[3]) /\ cs[n + 1].type # "heading3"
      BY <1>8 DEF Section
    <2>3. LastIs(cs, "heading1", 1, n + 1, d[1])
      BY <1>2, <1>8, <2>2, LastGrows
    <2>4. LastIs(cs, "heading2", d[1] + 1, n + 1, d[2])
      BY <1>2, <1>8, <2>2, LastGrows
    <2>5. LastIs(cs, "heading3", Under(d), n + 1, d[3])
      BY <1>1, <1>8, <2>2, LastGrows
    <2> QED
      BY <2>1, <2>3, <2>4, <2>5 DEF Section
  <1> QED
    BY <1>5, <1>6, <1>7, <1>8


-----------------------------------------------------------------------------
(* The chunks written so far.                                              *)

Chunk == [text : Seq(Nat), crumbs : Seq(Nat), overlap : Nat, page : Nat]

(* The last block, or word, of the k-th chunk.                             *)
Stop(cs, k) == IF k = 0 THEN 0 ELSE cs[k].text[Len(cs[k].text)]

(* The blocks after lo up to hi pass the target by the last one only.      *)
Bounded(bs, lo, hi) ==
    (\A i \in lo + 1..hi : bs[i].type # "table") /\ Weight(bs, Run(lo, hi)) > TargetTokens =>
        /\ Weight(bs, Run(lo, hi - 1)) <= TargetTokens
        /\ hi = lo + 1 \/ bs[hi].type \in Cutting!Headings

PageAt(w, i) == IF w = "enhanced" THEN 0 ELSE i

ChunkOK(w, bs, cs, k) ==
    /\ Stop(cs, k - 1) \in Nat /\ Stop(cs, k) \in Nat
    /\ Stop(cs, k - 1) < Stop(cs, k) /\ Stop(cs, k) <= Len(bs)
    /\ cs[k].text = Run(Stop(cs, k - 1), Stop(cs, k))
    /\ Bounded(bs, Stop(cs, k - 1), Stop(cs, k))
    /\ Section(bs, Stop(cs, k), cs[k].crumbs)
    /\ cs[k].overlap # 0 => cs[k].overlap = k - 1 /\ cs[k].crumbs[1] = cs[k - 1].crumbs[1]
    /\ k > 1 => cs[k].page = PageAt(w, Stop(cs, k - 1) + 1)

BuildInv ==
    /\ blocks \in Seq(Block) /\ Len(blocks) <= MaxBlocks
    /\ \A i \in 1..Len(blocks) : blocks[i] \in [type : Cutting!Types(way), tokens : Sizes]
    /\ \A k \in 1..Len(chunks) : ChunkOK(way, blocks, chunks, k)
    /\ Stop(chunks, Len(chunks)) \in Nat /\ Stop(chunks, Len(chunks)) <= Len(blocks)
    /\ Section(blocks, Len(blocks), crumbs)
    /\ page \in 0..MaxBlocks /\ repeated \in 0..Len(chunks)
    /\ ended => current = << >> /\ Stop(chunks, Len(chunks)) = Len(blocks)
    /\ ~ended =>
         /\ current = Run(Stop(chunks, Len(chunks)), Len(blocks))
         /\ Len(blocks) # 0 => Stop(chunks, Len(chunks)) < Len(blocks)
                               /\ Bounded(blocks, Stop(chunks, Len(chunks)), Len(blocks))
         /\ repeated # 0 => repeated = Len(chunks) /\ crumbs[1] = chunks[Len(chunks)].crumbs[1]
         /\ Len(chunks) # 0 => page = PageAt(way, Stop(chunks, Len(chunks)) + 1)

(* The windows of a split.                                                 *)
WindowOK(cs, k) ==
    /\ Stop(cs, k) \in 1..words
    /\ \E lo \in Nat : /\ lo < Stop(cs, k) /\ cs[k].text = Run(lo, Stop(cs, k))
                       /\ k = 1 => lo = 0
                       /\ k > 1 => lo = Stop(cs, k - 1) - WindowOverlap /\ Stop(cs, k - 1) < Stop(cs, k)

SplitInv ==
    /\ blocks = << >> /\ current = << >> /\ crumbs = <<0, 0, 0>> /\ page = 0 /\ repeated = 0
    /\ words \in 1..MaxWords /\ at \in 0..words
    /\ \A k \in 1..Len(chunks) : WindowOK(chunks, k)
    /\ Len(chunks) = 0 => at = 0 /\ ~ended
    /\ Len(chunks) # 0 =>
         IF ended THEN Stop(chunks, Len(chunks)) = words
         ELSE Stop(chunks, Len(chunks)) < words /\ at = Stop(chunks, Len(chunks)) - WindowOverlap

CutInv ==
    /\ way \in Cutting!Ways /\ ended \in BOOLEAN /\ chunks \in Seq(Chunk)
    /\ way # "split" => BuildInv /\ words = 0 /\ at = 0
    /\ way = "split" => SplitInv

LEMMA CutConstants ==
    /\ TargetTokens \in Nat \ {0} /\ Sizes \subseteq Nat /\ WindowSize \in Nat /\ WindowOverlap \in Nat
    /\ WindowOverlap < WindowSize /\ MaxBlocks \in Nat /\ MaxWords \in Nat \ {0}
  BY AssistantAssumption DEF Cutting!ChunkerAssumption

LEMMA BoundedStays ==
  ASSUME NEW bs, NEW cs, NEW lo \in Nat, NEW hi \in Nat, lo < hi, Bounded(bs, lo, hi),
         \A i \in 1..hi : cs[i] = bs[i]
  PROVE  Bounded(cs, lo, hi)
  <1>1. ASSUME NEW m \in Nat, lo <= m, m <= hi PROVE Weight(cs, Run(lo, m)) = Weight(bs, Run(lo, m))
    <2> DEFINE n == m - lo
    <2>1. n \in Nat /\ m = lo + n
      BY <1>1
    <2>2. \A i \in 1..n : lo + i \in 1..hi
      BY <1>1
    <2> HIDE DEF n
    <2>3. Len(Run(lo, m)) = n /\ \A i \in 1..n : Run(lo, m)[i] = lo + i
      <3>1. Len(Run(lo, lo + n)) = n /\ \A i \in 1..n : Run(lo, lo + n)[i] = lo + i
        BY <2>1, RunHas, Zenon
      <3> QED
        BY <2>1, <3>1
    <2>4. \A i \in 1..Len(Run(lo, m)) : cs[Run(lo, m)[i]] = bs[Run(lo, m)[i]]
      BY <2>2, <2>3
    <2> QED
      BY <2>1, <2>3, <2>4, WeightStays
  <1>2. hi - 1 \in Nat /\ lo <= hi - 1 /\ hi - 1 <= hi /\ lo <= hi /\ hi <= hi /\ hi \in 1..hi
    OBVIOUS
  <1>3. Weight(cs, Run(lo, hi)) = Weight(bs, Run(lo, hi)) /\ Weight(cs, Run(lo, hi - 1)) = Weight(bs, Run(lo, hi - 1))
    BY <1>1, <1>2
  <1>4. \A i \in lo + 1..hi : cs[i] = bs[i]
    OBVIOUS
  <1> QED
    BY <1>2, <1>3, <1>4 DEF Bounded

(* A chunk written stays as it is, whatever block or chunk comes.          *)
LEMMA ChunkStays ==
  ASSUME NEW w, NEW bs, NEW cs, NEW ds, NEW es, NEW k \in Nat, k # 0, ChunkOK(w, bs, ds, k),
         Len(bs) \in Nat, Len(cs) \in Nat, Len(bs) <= Len(cs),
         \A i \in 1..Len(bs) : cs[i] = bs[i], \A i \in 1..k : es[i] = ds[i]
  PROVE  ChunkOK(w, cs, es, k)
  <1> DEFINE lo == Stop(ds, k - 1)
             hi == Stop(ds, k)
  <1>1. k \in 1..k /\ (k - 1 # 0 => k - 1 \in 1..k)
    OBVIOUS
  <1>2. Stop(es, k - 1) = lo /\ Stop(es, k) = hi
    BY <1>1 DEF Stop
  <1>3. lo \in Nat /\ hi \in Nat /\ lo < hi /\ hi <= Len(bs)
    BY DEF ChunkOK
  <1>4. \A i \in 1..hi : cs[i] = bs[i]
    BY <1>3
  <1>5. Bounded(bs, lo, hi) /\ Section(bs, hi, ds[k].crumbs)
    BY DEF ChunkOK
  <1>6. ds[k].overlap # 0 => ds[k].overlap = k - 1 /\ ds[k].crumbs[1] = ds[k - 1].crumbs[1]
    BY DEF ChunkOK
  <1>7. (k > 1 => ds[k].page = PageAt(w, lo + 1)) /\ ds[k].text = Run(lo, hi)
    BY DEF ChunkOK
  <1> HIDE DEF lo, hi
  <1>8. Bounded(cs, lo, hi) /\ Section(cs, hi, ds[k].crumbs)
    BY <1>3, <1>4, <1>5, BoundedStays, SectionStays
  <1>9. es[k] = ds[k] /\ (k > 1 => es[k - 1] = ds[k - 1])
    BY <1>1
  <1>10. es[k].overlap # 0 => es[k].overlap = k - 1 /\ es[k].crumbs[1] = es[k - 1].crumbs[1]
    <2>1. CASE k > 1
      BY <1>6, <1>9, <2>1
    <2>2. CASE k = 1
      BY <1>6, <1>9, <2>2
    <2> QED
      BY <2>1, <2>2
  <1>11. hi <= Len(cs)
    BY <1>3
  <1> QED
    BY <1>2, <1>3, <1>7, <1>8, <1>9, <1>10, <1>11 DEF ChunkOK

LEMMA SameNext == Cutting!Next1 = Len(blocks) + 1 /\ \A i : Cutting!PageOf(i) = PageAt(way, i)
  BY DEF Cutting!Next1, Cutting!PageOf, PageAt

(* Where the chunk being written begins.                                   *)
LEMMA PagesAgree ==
  ASSUME BuildInv, chunks \in Seq(Chunk), ~ended, NEW ps \in {page, Cutting!PageOnceKnown}
  PROVE  /\ ps \in Nat
         /\ Len(chunks) # 0 => ps = PageAt(way, Stop(chunks, Len(chunks)) + 1)
  <1>1. /\ page \in 0..MaxBlocks /\ MaxBlocks \in Nat /\ Stop(chunks, Len(chunks)) \in Nat
        /\ Len(chunks) # 0 => page = PageAt(way, Stop(chunks, Len(chunks)) + 1)
        /\ Len(blocks) \in Nat
    BY CutConstants DEF BuildInv
  <1>2. Cutting!PageOnceKnown = IF page = 0 THEN PageAt(way, Len(blocks) + 1) ELSE page
    BY SameNext DEF Cutting!PageOnceKnown
  <1> QED
    BY <1>1, <1>2 DEF PageAt

LEMMA NothingWritten ==
  ASSUME BuildInv, chunks \in Seq(Chunk), ~ended
  PROVE  /\ current = << >> => Len(blocks) = 0 /\ chunks = << >>
         /\ current # << >> => Stop(chunks, Len(chunks)) < Len(blocks)
                               /\ Bounded(blocks, Stop(chunks, Len(chunks)), Len(blocks))
  <1> DEFINE lo == Stop(chunks, Len(chunks))
             hi == Len(blocks)
  <1>1. /\ lo \in Nat /\ hi \in Nat /\ lo <= hi /\ current = Run(lo, hi)
        /\ hi # 0 => lo < hi /\ Bounded(blocks, lo, hi)
        /\ \A k \in 1..Len(chunks) : ChunkOK(way, blocks, chunks, k)
        /\ Len(chunks) \in Nat
    BY DEF BuildInv
  <1>2. lo = hi <=> current = << >>
    <2>1. lo \in Nat /\ hi \in Nat /\ lo <= hi /\ current = Run(lo, hi)
      BY <1>1
    <2> HIDE DEF lo, hi
    <2>2. lo = hi <=> Run(lo, hi) = << >>
      BY <2>1, RunIs, Zenon
    <2> QED
      BY <2>1, <2>2
  <1>3. ASSUME current = << >> PROVE hi = 0 /\ chunks = << >>
    <2>1. hi = 0 /\ lo = 0
      BY <1>1, <1>2, <1>3
    <2>2. ASSUME Len(chunks) # 0 PROVE FALSE
      <3>1. ChunkOK(way, blocks, chunks, Len(chunks))
        BY <1>1, <2>2
      <3>2. Stop(chunks, Len(chunks) - 1) \in Nat /\ Stop(chunks, Len(chunks) - 1) < lo
        BY <3>1 DEF ChunkOK
      <3> QED
        BY <2>1, <3>2
    <2> QED
      BY <2>1, <2>2
  <1> QED
    BY <1>1, <1>2, <1>3

(* flush writes a chunk that is as it shall be.                            *)
FlushedTo(ds) ==
    /\ ds \in Seq(Chunk) /\ Stop(ds, Len(ds)) = Len(blocks)
    /\ \A k \in 1..Len(ds) : ChunkOK(way, blocks, ds, k)
    /\ Len(ds) # 0 => ds[Len(ds)].crumbs = crumbs

LEMMA FlushedOK ==
  ASSUME BuildInv, chunks \in Seq(Chunk), ~ended, NEW ps \in {page, Cutting!PageOnceKnown}
  PROVE  FlushedTo(Cutting!Flushed(ps))
  <1>1. CASE current = << >>
    <2>1. Cutting!Flushed(ps) = chunks /\ chunks = << >> /\ Len(blocks) = 0
      BY <1>1, NothingWritten DEF Cutting!Flushed
    <2>2. Len(chunks) = 0 /\ \A k \in 1..0 : FALSE
      BY <2>1
    <2>3. Stop(chunks, Len(chunks)) = 0
      BY <2>2 DEF Stop
    <2> QED
      BY <2>1, <2>2, <2>3 DEF FlushedTo
  <1>2. CASE current # << >>
    <2> DEFINE lo == Stop(chunks, Len(chunks))
               hi == Len(blocks)
               n == Len(chunks)
               new == [text |-> current, crumbs |-> crumbs, overlap |-> repeated, page |-> ps]
               ds == Append(chunks, new)
    <2>1. Cutting!Flushed(ps) = ds
      BY <1>2 DEF Cutting!Flushed
    <2>2. /\ lo \in Nat /\ hi \in Nat /\ lo < hi /\ current = Run(lo, hi) /\ n \in Nat
          /\ Bounded(blocks, lo, hi) /\ Section(blocks, hi, crumbs)
          /\ \A k \in 1..n : ChunkOK(way, blocks, chunks, k)
          /\ repeated \in 0..n
          /\ repeated # 0 => repeated = n /\ crumbs[1] = chunks[n].crumbs[1]
      BY <1>2, NothingWritten DEF BuildInv
    <2>3. ps \in Nat /\ (n # 0 => ps = PageAt(way, lo + 1))
      BY PagesAgree
    <2>4. new \in Chunk
      <3>1. current \in Seq(Nat)
        <4>1. lo \in Nat /\ hi \in Nat /\ lo <= hi /\ current = Run(lo, hi)
          BY <2>2
        <4> HIDE DEF lo, hi
        <4> QED
          BY <4>1, RunIs
      <3>2. crumbs \in Seq(Nat)
        <4>1. crumbs \in Seq(0..hi) /\ 0..hi \subseteq Nat
          BY <2>2 DEF Section
        <4> QED
          BY <4>1
      <3> QED
        BY <2>2, <2>3, <3>1, <3>2 DEF Chunk
    <2>5. /\ ds \in Seq(Chunk) /\ Len(ds) = n + 1 /\ ds[n + 1] = new
          /\ \A i \in 1..n : ds[i] = chunks[i]
      BY <2>4
    <2>6. new.text = Run(lo, hi) /\ new.crumbs = crumbs /\ new.overlap = repeated /\ new.page = ps
      BY <2>2
    <2> HIDE DEF new, ds
    <2>7. Stop(ds, n) = lo /\ Stop(ds, n + 1) = hi
      <3>1. n # 0 => n \in 1..n
        BY <2>2
      <3>2. Stop(ds, n) = lo
        BY <2>5, <3>1 DEF Stop
      <3>3. Run(lo, hi)[Len(Run(lo, hi))] = hi
        <4>1. lo \in Nat /\ hi \in Nat /\ lo <= hi /\ lo < hi
          BY <2>2
        <4> HIDE DEF lo, hi
        <4>2. Len(Run(lo, hi)) = hi - lo /\ Run(lo, hi)[hi - lo] = hi
          BY <4>1, RunIs, Zenon
        <4> QED
          BY <4>2
      <3> QED
        BY <2>2, <2>5, <2>6, <3>2, <3>3 DEF Stop
    <2>8. ChunkOK(way, blocks, ds, n + 1)
      <3>1. (n + 1) - 1 = n /\ (n + 1 > 1 <=> n # 0) /\ hi <= hi
        BY <2>2
      <3>2. repeated # 0 => repeated = n /\ n \in 1..n /\ crumbs[1] = ds[n].crumbs[1]
        BY <2>2, <2>5
      <3> QED
        BY <2>2, <2>3, <2>5, <2>6, <2>7, <3>1, <3>2, Zenon DEF ChunkOK
    <2>9. ASSUME NEW k \in 1..n PROVE ChunkOK(way, blocks, ds, k)
      <3>1. k \in Nat /\ k # 0 /\ ChunkOK(way, blocks, chunks, k) /\ \A i \in 1..k : ds[i] = chunks[i]
        BY <2>2, <2>5
      <3> QED
        BY <2>2, <3>1, ChunkStays
    <2>10. \A k \in 1..n + 1 : k \in 1..n \/ k = n + 1
      BY <2>2
    <2> QED
      BY <2>1, <2>5, <2>6, <2>7, <2>8, <2>9, <2>10 DEF FlushedTo
  <1> QED
    BY <1>1, <1>2


(* A block is read: what holds of the ones before it still does.           *)
Reading(type, n) ==
    /\ type \in Cutting!Types(way) /\ n \in Sizes /\ ~ended
    /\ Len(blocks) < MaxBlocks
    /\ blocks' = Append(blocks, [type |-> type, tokens |-> n])
    /\ way' = way /\ ended' = ended /\ words' = words /\ at' = at

LEMMA BlockRead ==
  ASSUME BuildInv, NEW type, NEW n, Reading(type, n)
  PROVE  /\ blocks' \in Seq(Block) /\ Len(blocks') = Len(blocks) + 1 /\ Len(blocks') <= MaxBlocks
         /\ \A i \in 1..Len(blocks) : blocks'[i] = blocks[i]
         /\ blocks'[Len(blocks) + 1] = [type |-> type, tokens |-> n]
         /\ \A i \in 1..Len(blocks') : blocks'[i] \in [type : Cutting!Types(way), tokens : Sizes]
         /\ Len(blocks) \in Nat /\ n \in Nat
         /\ \A lo, hi \in Nat : lo <= hi /\ hi <= Len(blocks) =>
              Weight(blocks', Run(lo, hi)) = Weight(blocks, Run(lo, hi))
  <1> DEFINE b == [type |-> type, tokens |-> n]
             m == Len(blocks)
  <1>1. /\ blocks \in Seq(Block) /\ m \in Nat /\ MaxBlocks \in Nat /\ m < MaxBlocks
        /\ \A i \in 1..m : blocks[i] \in [type : Cutting!Types(way), tokens : Sizes]
    BY CutConstants DEF BuildInv, Reading
  <1>2. b \in [type : Cutting!Types(way), tokens : Sizes] /\ n \in Nat
    BY CutConstants DEF Reading
  <1>3. b \in Block
    BY <1>2 DEF Block, Cutting!Types, Reading
  <1>4. blocks' = Append(blocks, b)
    BY DEF Reading
  <1> HIDE DEF b
  <1>5. /\ blocks' \in Seq(Block) /\ Len(blocks') = m + 1 /\ blocks'[m + 1] = b
        /\ \A i \in 1..m : blocks'[i] = blocks[i]
    BY <1>1, <1>3, <1>4
  <1>6. \A i \in 1..m + 1 : i \in 1..m \/ i = m + 1
    BY <1>1
  <1>7. \A i \in 1..Len(blocks') : blocks'[i] \in [type : Cutting!Types(way), tokens : Sizes]
    BY <1>1, <1>2, <1>5, <1>6
  <1>8. ASSUME NEW lo \in Nat, NEW hi \in Nat, lo <= hi, hi <= m
        PROVE  Weight(blocks', Run(lo, hi)) = Weight(blocks, Run(lo, hi))
    <2> DEFINE k == hi - lo
    <2>1. k \in Nat /\ hi = lo + k
      BY <1>8
    <2>2. \A i \in 1..k : lo + i \in 1..m
      BY <1>1, <1>8
    <2> HIDE DEF k
    <2>3. Len(Run(lo, hi)) = k /\ \A i \in 1..k : Run(lo, hi)[i] = lo + i
      <3>1. Len(Run(lo, lo + k)) = k /\ \A i \in 1..k : Run(lo, lo + k)[i] = lo + i
        BY <2>1, RunHas, Zenon
      <3> QED
        BY <2>1, <3>1
    <2>4. \A i \in 1..Len(Run(lo, hi)) : blocks'[Run(lo, hi)[i]] = blocks[Run(lo, hi)[i]]
      BY <1>5, <2>2, <2>3
    <2> QED
      BY <2>1, <2>3, <2>4, WeightStays
  <1>9. m + 1 <= MaxBlocks
    BY <1>1
  <1>10. b = [type |-> type, tokens |-> n]
    BY DEF b
  <1> HIDE DEF m
  <1>11. \A lo, hi \in Nat : lo <= hi /\ hi <= m => Weight(blocks', Run(lo, hi)) = Weight(blocks, Run(lo, hi))
    BY <1>8
  <1> QED
    BY <1>1, <1>2, <1>5, <1>7, <1>9, <1>10, <1>11 DEF m

LEMMA CrumbsFollow ==
  ASSUME BuildInv, NEW type, NEW n, Reading(type, n),
         \/ type = "heading1" /\ crumbs' = <<Len(blocks) + 1, 0, 0>>
         \/ type = "heading2" /\ crumbs' = <<crumbs[1], Len(blocks) + 1, 0>>
         \/ type = "heading3" /\ crumbs' = <<crumbs[1], crumbs[2], Len(blocks) + 1>>
         \/ type \notin {"heading1", "heading2", "heading3"} /\ crumbs' = crumbs
  PROVE  Section(blocks', Len(blocks'), crumbs')
  <1>1. Section(blocks, Len(blocks), crumbs)
    BY DEF BuildInv
  <1>2. /\ Len(blocks) \in Nat /\ Len(blocks') = Len(blocks) + 1
        /\ \A i \in 1..Len(blocks) : blocks'[i] = blocks[i]
        /\ blocks'[Len(blocks) + 1].type = type
    <2>1. blocks'[Len(blocks) + 1] = [type |-> type, tokens |-> n]
      BY BlockRead
    <2>2. [type |-> type, tokens |-> n].type = type
      OBVIOUS
    <2> QED
      BY <2>1, <2>2, BlockRead
  <1> DEFINE m == Len(blocks)
             cs == blocks'
             d == crumbs'
  <1>3. \/ cs[m + 1].type = "heading1" /\ d = <<m + 1, 0, 0>>
        \/ cs[m + 1].type = "heading2" /\ d = <<crumbs[1], m + 1, 0>>
        \/ cs[m + 1].type = "heading3" /\ d = <<crumbs[1], crumbs[2], m + 1>>
        \/ cs[m + 1].type \notin {"heading1", "heading2", "heading3"} /\ d = crumbs
    BY <1>2
  <1>4. m \in Nat /\ Section(blocks, m, crumbs) /\ \A i \in 1..m : cs[i] = blocks[i]
    BY <1>1, <1>2
  <1> HIDE DEF m, cs, d
  <1>5. Section(cs, m + 1, d)
    BY <1>3, <1>4, SectionGrows
  <1> QED
    BY <1>2, <1>5 DEF m, cs, d

(* A chunk that takes one more block.                                      *)
LEMMA ExtendsOK ==
  ASSUME BuildInv, chunks \in Seq(Chunk), way # "split", NEW type, NEW n, Reading(type, n),
         Section(blocks', Len(blocks'), crumbs'),
         \/ type = "table"
         \/ Weight(blocks, current) + n <= TargetTokens
         \/ Weight(blocks, current) <= TargetTokens /\ type \in Cutting!Headings,
         Cutting!Extends, page' \in {page, Cutting!PageOnceKnown},
         repeated # 0 => crumbs'[1] = crumbs[1]
  PROVE  BuildInv' /\ chunks' \in Seq(Chunk)
  <1> DEFINE lo == Stop(chunks, Len(chunks))
             hi == Len(blocks)
             k == Len(chunks)
             cs == blocks'
  <1>1. /\ lo \in Nat /\ hi \in Nat /\ lo <= hi /\ current = Run(lo, hi) /\ k \in Nat
        /\ \A i \in 1..k : ChunkOK(way, blocks, chunks, i)
        /\ repeated \in 0..k /\ ~ended
        /\ repeated # 0 => repeated = k /\ crumbs[1] = chunks[k].crumbs[1]
    BY DEF BuildInv, Reading
  <1>2. /\ cs \in Seq(Block) /\ Len(cs) = hi + 1 /\ Len(cs) <= MaxBlocks
        /\ \A i \in 1..hi : cs[i] = blocks[i]
        /\ cs[hi + 1] = [type |-> type, tokens |-> n]
        /\ \A i \in 1..Len(cs) : cs[i] \in [type : Cutting!Types(way), tokens : Sizes]
        /\ n \in Nat
        /\ \A x, y \in Nat : x <= y /\ y <= hi => Weight(cs, Run(x, y)) = Weight(blocks, Run(x, y))
    BY BlockRead
  <1>3. chunks' = chunks /\ repeated' = repeated /\ current' = Append(current, hi + 1)
    BY SameNext DEF Cutting!Extends
  <1>4. way' = way /\ ended' = ended
    BY DEF Reading
  <1>5. page' \in Nat /\ (k # 0 => page' = PageAt(way, lo + 1))
    BY <1>1, PagesAgree
  <1>6. page' \in 0..MaxBlocks
    <2>1. page \in 0..MaxBlocks
      BY DEF BuildInv
    <2>2. Cutting!PageOnceKnown = IF page = 0 THEN PageAt(way, hi + 1) ELSE page
      BY SameNext DEF Cutting!PageOnceKnown
    <2>3. PageAt(way, hi + 1) \in 0..MaxBlocks
      BY <1>1, <1>2, CutConstants DEF PageAt
    <2> QED
      BY <2>1, <2>2, <2>3
  <1>7. ASSUME NEW i \in 1..k PROVE ChunkOK(way, cs, chunks, i)
    <2>1. i \in Nat /\ i # 0 /\ ChunkOK(way, blocks, chunks, i)
          /\ Len(blocks) \in Nat /\ Len(cs) \in Nat /\ Len(blocks) <= Len(cs)
      BY <1>1, <1>2
    <2>2. \A j \in 1..i : chunks[j] = chunks[j]
      OBVIOUS
    <2>3. \A j \in 1..Len(blocks) : cs[j] = blocks[j]
      BY <1>2
    <2> HIDE DEF cs
    <2> QED
      BY <2>1, <2>2, <2>3, ChunkStays
  <1>8. current' = Run(lo, hi + 1)
    <2>1. Append(Run(lo, hi), hi + 1) = Run(lo, hi + 1)
      <3>1. lo \in Nat /\ hi \in Nat /\ lo <= hi
        BY <1>1
      <3> HIDE DEF lo, hi
      <3> QED
        BY <3>1, RunGrows
    <2> QED
      BY <1>1, <1>3, <2>1
  <1>9. Bounded(cs, lo, hi + 1)
    <2>1. Weight(cs, Run(lo, hi + 1)) = Weight(cs, Run(lo, hi)) + cs[hi + 1].tokens
      <3>1. lo \in Nat /\ hi \in Nat /\ lo <= hi
        BY <1>1
      <3> HIDE DEF lo, hi, cs
      <3> QED
        BY <3>1, WeightGrows
    <2>2. Weight(cs, Run(lo, hi)) = Weight(blocks, current)
      BY <1>1, <1>2
    <2>3. Weight(blocks, current) \in Nat
      <3>1. current \in Seq(1..hi)
        <4>1. lo \in Nat /\ hi \in Nat /\ lo <= hi /\ current = Run(lo, hi)
          BY <1>1
        <4> HIDE DEF lo, hi
        <4>2. Run(lo, hi) \in Seq(lo + 1..hi)
          BY <4>1, RunIs
        <4>3. lo + 1..hi \subseteq 1..hi
          BY <4>1
        <4> QED
          BY <4>1, <4>2, <4>3
      <3>2. blocks \in Seq(Block)
        BY DEF BuildInv
      <3> QED
        BY <3>1, <3>2, WeightIsNat
    <2>4. hi + 1 \in lo + 1..hi + 1 /\ (hi + 1) - 1 = hi
      BY <1>1
    <2>5. cs[hi + 1].type = type /\ cs[hi + 1].tokens = n
      BY <1>2
    <2> HIDE DEF lo, hi, cs
    <2>6. CASE type = "table"
      BY <2>4, <2>5, <2>6 DEF Bounded
    <2>7. CASE Weight(blocks, current) + n <= TargetTokens
      <3>1. ~(Weight(cs, Run(lo, hi + 1)) > TargetTokens)
        BY <1>2, <2>1, <2>2, <2>3, <2>5, <2>7, CutConstants
      <3> QED
        BY <3>1 DEF Bounded
    <2>8. CASE Weight(blocks, current) <= TargetTokens /\ type \in Cutting!Headings
      BY <2>2, <2>4, <2>5, <2>8 DEF Bounded
    <2> QED
      BY <2>6, <2>7, <2>8
  <1>10. lo < hi + 1 /\ hi + 1 \in Nat /\ lo <= hi + 1
    BY <1>1
  <1>11. repeated # 0 => repeated = k /\ crumbs'[1] = chunks[k].crumbs[1]
    BY <1>1
  <1> QED
    BY <1>1, <1>2, <1>3, <1>4, <1>5, <1>6, <1>7, <1>8, <1>9, <1>10, <1>11 DEF BuildInv


(* A chunk that begins with the block, when the one before it is written.  *)
LEMMA CutBeginsOK ==
  ASSUME BuildInv, chunks \in Seq(Chunk), way # "split", NEW type, NEW n, Reading(type, n),
         Section(blocks', Len(blocks'), crumbs'),
         NEW ps \in {page, Cutting!PageOnceKnown}, Cutting!Begins(ps),
         repeated' \in {0, Len(chunks')}, repeated' # 0 => crumbs'[1] = crumbs[1]
  PROVE  BuildInv' /\ chunks' \in Seq(Chunk)
  <1> DEFINE hi == Len(blocks)
             cs == blocks'
             ds == chunks'
             k == Len(chunks')
  <1>1. ~ended /\ way' = way /\ ended' = ended
    BY DEF Reading
  <1>2. /\ ds \in Seq(Chunk) /\ Stop(ds, k) = hi
        /\ \A i \in 1..k : ChunkOK(way, blocks, ds, i)
        /\ k # 0 => ds[k].crumbs = crumbs
    <2>1. FlushedTo(Cutting!Flushed(ps)) /\ ds = Cutting!Flushed(ps)
      BY <1>1, FlushedOK DEF Cutting!Begins
    <2> HIDE DEF ds
    <2> QED
      BY <2>1 DEF FlushedTo, ds
  <1>3. /\ cs \in Seq(Block) /\ Len(cs) = hi + 1 /\ Len(cs) <= MaxBlocks
        /\ \A i \in 1..hi : cs[i] = blocks[i]
        /\ cs[hi + 1] = [type |-> type, tokens |-> n]
        /\ \A i \in 1..Len(cs) : cs[i] \in [type : Cutting!Types(way), tokens : Sizes]
        /\ n \in Nat /\ hi \in Nat
        /\ \A x, y \in Nat : x <= y /\ y <= hi => Weight(cs, Run(x, y)) = Weight(blocks, Run(x, y))
    BY BlockRead
  <1>4. current' = <<hi + 1>> /\ page' = PageAt(way, hi + 1)
    BY SameNext DEF Cutting!Begins
  <1>5. k \in Nat
    BY <1>2
  <1>6. page' \in 0..MaxBlocks
    BY <1>3, <1>4, CutConstants DEF PageAt
  <1>7. repeated' \in 0..k /\ (repeated' # 0 => repeated' = k /\ crumbs'[1] = ds[k].crumbs[1])
    BY <1>2, <1>5
  <1>8. ASSUME NEW i \in 1..k PROVE ChunkOK(way, cs, ds, i)
    <2>1. i \in Nat /\ i # 0 /\ ChunkOK(way, blocks, ds, i)
          /\ Len(blocks) \in Nat /\ Len(cs) \in Nat /\ Len(blocks) <= Len(cs)
      BY <1>2, <1>3, <1>5
    <2>2. \A j \in 1..i : ds[j] = ds[j]
      OBVIOUS
    <2>3. \A j \in 1..Len(blocks) : cs[j] = blocks[j]
      BY <1>3
    <2> HIDE DEF cs, ds
    <2> QED
      BY <2>1, <2>2, <2>3, ChunkStays
  <1>9. current' = Run(hi, hi + 1)
    <2>1. <<hi + 1>> = Run(hi, hi + 1)
      <3>1. hi \in Nat /\ hi <= hi
        BY <1>3
      <3> HIDE DEF hi
      <3> QED
        BY <3>1, RunGrows
    <2> QED
      BY <1>4, <2>1
  <1>10. Bounded(cs, hi, hi + 1)
    <2>1. (hi + 1) - 1 = hi /\ hi <= hi
      BY <1>3
    <2>2. Run(hi, hi) = << >>
      BY <1>3, <2>1, RunIs
    <2>3. Weight(cs, Run(hi, (hi + 1) - 1)) <= TargetTokens
      BY <2>1, <2>2, WeightOfNothing, CutConstants
    <2> HIDE DEF cs, hi
    <2> QED
      BY <2>3 DEF Bounded
  <1>11. hi < hi + 1 /\ hi + 1 \in Nat /\ hi <= hi + 1
    BY <1>3
  <1> QED
    BY <1>1, <1>2, <1>3, <1>4, <1>6, <1>7, <1>8, <1>9, <1>10, <1>11 DEF BuildInv

(* The end of the document writes the last chunk.                          *)
LEMMA EndsOK ==
  ASSUME BuildInv, chunks \in Seq(Chunk), Cutting!Ends
  PROVE  BuildInv' /\ chunks' \in Seq(Chunk)
  <1> DEFINE ds == chunks'
             k == Len(chunks')
  <1>1. /\ way' = way /\ ended' = TRUE /\ ~ended /\ current' = << >> /\ repeated' = 0
        /\ blocks' = blocks /\ crumbs' = crumbs /\ page' = page
    BY DEF Cutting!Ends, Cutting!splitting
  <1>2. /\ ds \in Seq(Chunk) /\ Stop(ds, k) = Len(blocks)
        /\ \A i \in 1..k : ChunkOK(way, blocks, ds, i)
    <2>1. FlushedTo(Cutting!Flushed(page)) /\ ds = Cutting!Flushed(page)
      BY <1>1, FlushedOK DEF Cutting!Ends
    <2> HIDE DEF ds
    <2> QED
      BY <2>1 DEF FlushedTo, ds
  <1>3. k \in Nat /\ Len(blocks) \in Nat /\ 0 \in 0..k
    BY <1>2 DEF BuildInv
  <1> QED
    BY <1>1, <1>2, <1>3 DEF BuildInv

-----------------------------------------------------------------------------
(* Each block, and each window.                                            *)

LEMMA TokensWeigh == BuildInv /\ ~ended =>
    Cutting!Tokens = Weight(blocks, current) /\ Weight(blocks, current) \in Nat
  <1> SUFFICES ASSUME BuildInv, ~ended
               PROVE  Cutting!Tokens = Weight(blocks, current) /\ Weight(blocks, current) \in Nat
    OBVIOUS
  <1>1. PICK lo \in Nat, hi \in Nat : lo <= hi /\ current = Run(lo, hi) /\ hi = Len(blocks)
    BY DEF BuildInv
  <1>2. current \in Seq(1..Len(blocks))
    <2>1. Run(lo, hi) \in Seq(lo + 1..hi)
      BY <1>1, RunIs
    <2>2. lo + 1..hi \subseteq 1..hi
      BY <1>1
    <2> QED
      BY <1>1, <2>1, <2>2
  <1>3. blocks \in Seq(Block)
    BY DEF BuildInv
  <1> QED
    BY <1>2, <1>3, WeightIsNat, TokensAre DEF Cutting!Tokens

LEMMA ReadsIsReading ==
  ASSUME NEW type, NEW n \in Sizes, Cutting!Reads(type, n)
  PROVE  Reading(type, n) /\ way # "split"
  BY DEF Cutting!Reads, Reading, Cutting!splitting

LEMMA Heading1OK ==
  ASSUME BuildInv, chunks \in Seq(Chunk), NEW n \in Sizes, Cutting!Heading1(n)
  PROVE  BuildInv' /\ chunks' \in Seq(Chunk)
  <1>1. Reading("heading1", n) /\ way # "split"
    BY ReadsIsReading DEF Cutting!Heading1
  <1>2. Cutting!Begins(page) /\ repeated' = 0 /\ crumbs' = <<Len(blocks) + 1, 0, 0>>
        /\ page \in {page, Cutting!PageOnceKnown}
    BY SameNext DEF Cutting!Heading1
  <1>3. Section(blocks', Len(blocks'), crumbs')
    BY <1>1, <1>2, CrumbsFollow
  <1>4. repeated' \in {0, Len(chunks')} /\ (repeated' # 0 => crumbs'[1] = crumbs[1])
    BY <1>2
  <1> QED
    BY <1>1, <1>2, <1>3, <1>4, CutBeginsOK

LEMMA Heading2OK ==
  ASSUME BuildInv, chunks \in Seq(Chunk), NEW n \in Sizes, Cutting!Heading2(n)
  PROVE  BuildInv' /\ chunks' \in Seq(Chunk)
  <1>1. Reading("heading2", n) /\ way # "split" /\ ~ended
    BY ReadsIsReading DEF Cutting!Heading2, Reading
  <1>2. crumbs' = <<crumbs[1], Len(blocks) + 1, 0>> /\ crumbs'[1] = crumbs[1]
    BY SameNext DEF Cutting!Heading2
  <1>3. Section(blocks', Len(blocks'), crumbs')
    BY <1>1, <1>2, CrumbsFollow
  <1>4. CASE Cutting!Begins(page) /\ repeated' = 0
    <2>1. page \in {page, Cutting!PageOnceKnown} /\ repeated' \in {0, Len(chunks')}
          /\ (repeated' # 0 => crumbs'[1] = crumbs[1])
      BY <1>4
    <2> QED
      BY <1>1, <1>3, <1>4, <2>1, CutBeginsOK
  <1>5. CASE Cutting!Tokens < TargetTokens \div 2 /\ Cutting!Extends /\ page' = page
    <2>1. TargetTokens \div 2 <= TargetTokens /\ TargetTokens \div 2 \in Nat /\ TargetTokens \in Nat
      BY CutConstants
    <2>2. Weight(blocks, current) <= TargetTokens /\ "heading2" \in Cutting!Headings
      BY <1>1, <1>5, <2>1, TokensWeigh DEF Cutting!Headings
    <2> QED
      BY <1>1, <1>2, <1>3, <1>5, <2>2, ExtendsOK
  <1> QED
    BY <1>4, <1>5 DEF Cutting!Heading2

LEMMA Heading3OK ==
  ASSUME BuildInv, chunks \in Seq(Chunk), NEW n \in Sizes, Cutting!Heading3(n)
  PROVE  BuildInv' /\ chunks' \in Seq(Chunk)
  <1>1. Reading("heading3", n) /\ way # "split" /\ ~ended
    BY ReadsIsReading DEF Cutting!Heading3, Reading
  <1>2. crumbs' = <<crumbs[1], crumbs[2], Len(blocks) + 1>> /\ crumbs'[1] = crumbs[1]
    BY SameNext DEF Cutting!Heading3
  <1>3. Section(blocks', Len(blocks'), crumbs')
    BY <1>1, <1>2, CrumbsFollow
  <1>4. CASE Cutting!Begins(page) /\ repeated' = 0
    <2>1. page \in {page, Cutting!PageOnceKnown} /\ repeated' \in {0, Len(chunks')}
          /\ (repeated' # 0 => crumbs'[1] = crumbs[1])
      BY <1>4
    <2> QED
      BY <1>1, <1>3, <1>4, <2>1, CutBeginsOK
  <1>5. CASE Cutting!Tokens < TargetTokens /\ Cutting!Extends /\ page' = page
    <2>1. Weight(blocks, current) <= TargetTokens /\ "heading3" \in Cutting!Headings
      BY <1>1, <1>5, CutConstants, TokensWeigh DEF Cutting!Headings
    <2> QED
      BY <1>1, <1>2, <1>3, <1>5, <2>1, ExtendsOK
  <1> QED
    BY <1>4, <1>5 DEF Cutting!Heading3

LEMMA TableOK ==
  ASSUME BuildInv, chunks \in Seq(Chunk), NEW n \in Sizes, Cutting!Table(n)
  PROVE  BuildInv' /\ chunks' \in Seq(Chunk)
  <1>1. Reading("table", n) /\ way # "split"
    BY ReadsIsReading DEF Cutting!Table
  <1>2. Cutting!Extends /\ page' = Cutting!PageOnceKnown /\ crumbs' = crumbs
    BY DEF Cutting!Table
  <1>3. Section(blocks', Len(blocks'), crumbs')
    BY <1>1, <1>2, CrumbsFollow
  <1> QED
    BY <1>1, <1>2, <1>3, ExtendsOK

LEMMA ListItemOK ==
  ASSUME BuildInv, chunks \in Seq(Chunk), NEW n \in Sizes, Cutting!ListItem(n)
  PROVE  BuildInv' /\ chunks' \in Seq(Chunk)
  <1>1. Reading("list_item", n) /\ way # "split" /\ ~ended
    BY ReadsIsReading DEF Cutting!ListItem, Reading
  <1>2. crumbs' = crumbs
    BY DEF Cutting!ListItem
  <1>3. Section(blocks', Len(blocks'), crumbs')
    BY <1>1, <1>2, CrumbsFollow
  <1>4. CASE Cutting!Begins(page) /\ repeated' = 0
    <2>1. page \in {page, Cutting!PageOnceKnown} /\ repeated' \in {0, Len(chunks')}
          /\ (repeated' # 0 => crumbs'[1] = crumbs[1])
      BY <1>4
    <2> QED
      BY <1>1, <1>3, <1>4, <2>1, CutBeginsOK
  <1>5. CASE Cutting!Tokens + n <= TargetTokens /\ Cutting!Extends /\ page' = page
    <2>1. Weight(blocks, current) + n <= TargetTokens
      BY <1>1, <1>5, TokensWeigh
    <2> QED
      BY <1>1, <1>2, <1>3, <1>5, <2>1, ExtendsOK
  <1> QED
    BY <1>4, <1>5 DEF Cutting!ListItem

LEMMA ParagraphOK ==
  ASSUME BuildInv, chunks \in Seq(Chunk), NEW n \in Sizes, Cutting!Paragraph(n)
  PROVE  BuildInv' /\ chunks' \in Seq(Chunk)
  <1>1. Reading("paragraph", n) /\ way # "split" /\ ~ended
    BY ReadsIsReading DEF Cutting!Paragraph, Reading
  <1>2. crumbs' = crumbs
    BY DEF Cutting!Paragraph
  <1>3. Section(blocks', Len(blocks'), crumbs')
    BY <1>1, <1>2, CrumbsFollow
  <1>4. CASE Cutting!Begins(Cutting!PageOnceKnown) /\ Cutting!Repeats
    <2>1. repeated' \in {0, Len(chunks')} /\ crumbs'[1] = crumbs[1]
      BY <1>2, <1>4 DEF Cutting!Repeats
    <2> QED
      BY <1>1, <1>3, <1>4, <2>1, CutBeginsOK
  <1>5. CASE Cutting!Tokens + n <= TargetTokens /\ Cutting!Extends /\ page' = Cutting!PageOnceKnown
    <2>1. Weight(blocks, current) + n <= TargetTokens
      BY <1>1, <1>5, TokensWeigh
    <2> QED
      BY <1>1, <1>2, <1>3, <1>5, <2>1, ExtendsOK
  <1> QED
    BY <1>4, <1>5 DEF Cutting!Paragraph


LEMMA SplitWindowOK ==
  ASSUME SplitInv, chunks \in Seq(Chunk), ended \in BOOLEAN, Cutting!SplitWindow
  PROVE  SplitInv' /\ chunks' \in Seq(Chunk) /\ way' = way /\ ended' \in BOOLEAN
  <1> DEFINE k == Len(chunks)
             s == Stop(chunks, k)
             e == Cutting!WindowEnd
             new == [text |-> Run(at, e), crumbs |-> <<0, 0, 0>>, overlap |-> 0, page |-> 0]
             ds == chunks'
  <1>1. /\ words \in 1..MaxWords /\ at \in 0..words /\ at < words /\ ~ended /\ k \in Nat
        /\ \A i \in 1..k : WindowOK(chunks, i)
        /\ k = 0 => at = 0
        /\ k # 0 => s < words /\ at = s - WindowOverlap /\ s \in 1..words
    <2>1. \A i \in 1..k : WindowOK(chunks, i)
      BY DEF SplitInv
    <2>2. k \in Nat /\ (k # 0 => k \in 1..k)
      OBVIOUS
    <2>3. k # 0 => s \in 1..words
      BY <2>1, <2>2 DEF WindowOK
    <2> QED
      BY <2>1, <2>2, <2>3 DEF SplitInv, Cutting!SplitWindow
  <1>2. /\ WindowSize \in Nat /\ WindowOverlap \in Nat /\ WindowOverlap < WindowSize
        /\ MaxWords \in Nat
    BY CutConstants
  <1>3. /\ e \in 1..words /\ at < e
        /\ e # words => e = at + WindowSize
        /\ k # 0 => s < e
    BY <1>1, <1>2 DEF Cutting!WindowEnd
  <1>4. ds = Append(chunks, new)
    BY DEF Cutting!SplitWindow, Run
  <1>5. /\ way' = way /\ words' = words /\ blocks' = blocks /\ current' = current /\ crumbs' = crumbs
        /\ page' = page /\ repeated' = repeated
    BY DEF Cutting!SplitWindow, Cutting!building
  <1> HIDE DEF e
  <1>6. /\ e = words => ended' = TRUE /\ at' = at
        /\ e # words => ended' = ended /\ at' = e - WindowOverlap
    <2>1. \/ e = words /\ ended' = TRUE /\ at' = at
          \/ e < words /\ at' = at + WindowSize - WindowOverlap /\ ended' = ended
      BY DEF e, Cutting!SplitWindow, Cutting!NextWindow
    <2>2. e \in 1..words /\ words \in Nat /\ (e # words => e = at + WindowSize)
      BY <1>1, <1>3
    <2> QED
      BY <1>1, <1>2, <2>1, <2>2
  <1>7. at \in Nat /\ e \in Nat /\ at <= e /\ at < e
    BY <1>1, <1>3
  <1>8. /\ Run(at, e) \in Seq(Nat) /\ Len(Run(at, e)) = e - at /\ Run(at, e)[e - at] = e
    BY <1>7, RunIs
  <1>9. new \in Chunk /\ new.text = Run(at, e)
    <2>1. <<0, 0, 0>> \in Seq(Nat)
      OBVIOUS
    <2> QED
      BY <1>8, <2>1 DEF Chunk
  <1> HIDE DEF new, ds
  <1>10. /\ ds \in Seq(Chunk) /\ Len(ds) = k + 1 /\ ds[k + 1] = new
         /\ \A i \in 1..k : ds[i] = chunks[i]
    BY <1>4, <1>9
  <1>11. Stop(ds, k + 1) = e /\ \A i \in 0..k : Stop(ds, i) = Stop(chunks, i)
    <2>1. k + 1 # 0 /\ \A i \in 0..k : i # 0 => i \in 1..k
      BY <1>1
    <2>2. Stop(ds, k + 1) = e
      BY <1>8, <1>9, <1>10, <2>1 DEF Stop
    <2>3. \A i \in 0..k : Stop(ds, i) = Stop(chunks, i)
      BY <1>10, <2>1 DEF Stop
    <2> QED
      BY <2>2, <2>3
  <1>12. \A i \in 1..k : WindowOK(ds, i)
    <2> SUFFICES ASSUME NEW i \in 1..k PROVE WindowOK(ds, i)
      OBVIOUS
    <2>1. WindowOK(chunks, i) /\ ds[i] = chunks[i] /\ i \in 0..k /\ i - 1 \in 0..k
      BY <1>1, <1>10
    <2>2. Stop(ds, i) = Stop(chunks, i) /\ Stop(ds, i - 1) = Stop(chunks, i - 1)
      BY <1>11, <2>1
    <2> QED
      BY <2>1, <2>2 DEF WindowOK
  <1>13. WindowOK(ds, k + 1)
    <2>1. (k + 1) - 1 = k /\ k \in 0..k /\ (k + 1 = 1 <=> k = 0) /\ (k + 1 > 1 <=> k # 0)
      BY <1>1
    <2>2. Stop(ds, k) = s
      BY <1>11, <2>1
    <2> HIDE DEF s, k
    <2> QED
      BY <1>1, <1>3, <1>7, <1>9, <1>10, <1>11, <2>1, <2>2 DEF WindowOK
  <1>14. \A i \in 1..k + 1 : i \in 1..k \/ i = k + 1
    BY <1>1
  <1>15. \A i \in 1..Len(ds) : WindowOK(ds, i)
    BY <1>10, <1>12, <1>13, <1>14
  <1>16. (\A i \in 1..Len(ds) : WindowOK(ds, i)) => (\A i \in 1..Len(chunks') : WindowOK(chunks, i)')
    BY <1>5 DEF ds, WindowOK
  <1>17. at' \in 0..words
    BY <1>1, <1>2, <1>3, <1>6
  <1>18. Len(chunks') = k + 1 /\ k + 1 # 0 /\ Stop(chunks', Len(chunks')) = e
    BY <1>1, <1>10, <1>11 DEF ds
  <1>19. IF ended' THEN e = words ELSE e < words /\ at' = e - WindowOverlap
    BY <1>1, <1>3, <1>6
  <1>20. /\ blocks = << >> /\ current = << >> /\ crumbs = <<0, 0, 0>> /\ page = 0 /\ repeated = 0
    BY DEF SplitInv
  <1>21. chunks' \in Seq(Chunk) /\ ended' \in BOOLEAN
    BY <1>6, <1>10 DEF ds
  <1> QED
    BY <1>1, <1>5, <1>15, <1>16, <1>17, <1>18, <1>19, <1>20, <1>21 DEF SplitInv

LEMMA CutStart == Cutting!Init => CutInv
  <1> SUFFICES ASSUME Cutting!Init PROVE CutInv
    OBVIOUS
  <1>1. /\ way \in Cutting!Ways /\ blocks = << >> /\ current = << >> /\ crumbs = <<0, 0, 0>>
        /\ page = 0 /\ repeated = 0 /\ chunks = << >> /\ ended = FALSE /\ at = 0
        /\ way = "split" => words \in 1..MaxWords
        /\ way # "split" => words = 0
    BY DEF Cutting!Init
  <1>2. Len(chunks) = 0 /\ Len(blocks) = 0 /\ \A i \in 1..0 : FALSE
    BY <1>1
  <1>3. blocks \in Seq(Block) /\ chunks \in Seq(Chunk)
    BY <1>1
  <1>4. Stop(chunks, Len(chunks)) = 0
    BY <1>2 DEF Stop
  <1>5. Run(0, 0) = << >>
    BY RunIs
  <1>6. Section(blocks, 0, crumbs)
    <2>1. crumbs \in Seq(0..0) /\ Len(crumbs) = 3 /\ crumbs[1] = 0 /\ crumbs[2] = 0 /\ crumbs[3] = 0
      BY <1>1
    <2>2. Under(crumbs) = 1
      BY <2>1 DEF Under
    <2> QED
      BY <1>2, <2>1, <2>2 DEF Section, LastIs
  <1>7. CASE way = "split"
    <2>1. SplitInv
      BY <1>1, <1>2, <1>7, CutConstants DEF SplitInv
    <2> QED
      BY <1>1, <1>3, <1>7, <2>1 DEF CutInv
  <1>8. CASE way # "split"
    <2>1. BuildInv
      BY <1>1, <1>2, <1>3, <1>4, <1>5, <1>6, CutConstants DEF BuildInv
    <2> QED
      BY <1>1, <1>3, <1>8, <2>1 DEF CutInv
  <1> QED
    BY <1>7, <1>8

LEMMA CutGoesOn == CutInv /\ [Cutting!Next]_(Cutting!vars) => CutInv'
  <1> SUFFICES ASSUME CutInv, [Cutting!Next]_(Cutting!vars) PROVE CutInv'
    OBVIOUS
  <1>1. way \in Cutting!Ways /\ ended \in BOOLEAN /\ chunks \in Seq(Chunk)
    BY DEF CutInv
  <1>2. ASSUME way # "split", way' = way, words' = words, at' = at, ended' \in BOOLEAN,
               BuildInv', chunks' \in Seq(Chunk)
        PROVE  CutInv'
    BY <1>1, <1>2 DEF CutInv
  <1>3. CASE UNCHANGED Cutting!vars
    BY <1>3 DEF CutInv, BuildInv, SplitInv, WindowOK, Cutting!vars, Cutting!building, Cutting!splitting
  <1>4. CASE Cutting!SplitWindow
    <2>1. way = "split" /\ SplitInv
      BY <1>4 DEF CutInv, Cutting!SplitWindow
    <2>2. SplitInv' /\ chunks' \in Seq(Chunk) /\ way' = way /\ ended' \in BOOLEAN
      BY <1>1, <1>4, <2>1, SplitWindowOK
    <2> QED
      BY <1>1, <2>1, <2>2 DEF CutInv
  <1>5. CASE Cutting!Ends
    <2>1. way # "split" /\ way' = way /\ words' = words /\ at' = at /\ ended' = TRUE
      BY <1>5 DEF Cutting!Ends, Cutting!splitting
    <2>2. BuildInv
      BY <2>1 DEF CutInv
    <2>3. BuildInv' /\ chunks' \in Seq(Chunk)
      BY <1>1, <1>5, <2>2, EndsOK
    <2> QED
      BY <1>2, <2>1, <2>3
  <1>6. ASSUME NEW n \in Sizes,
               \/ Cutting!Heading1(n) \/ Cutting!Heading2(n) \/ Cutting!Heading3(n)
               \/ Cutting!Table(n) \/ Cutting!ListItem(n) \/ Cutting!Paragraph(n)
        PROVE  CutInv'
    <2>1. \E type \in {"heading1", "heading2", "heading3", "table", "list_item", "paragraph"} :
            Cutting!Reads(type, n)
      BY <1>6 DEF Cutting!Heading1, Cutting!Heading2, Cutting!Heading3, Cutting!Table, Cutting!ListItem,
                  Cutting!Paragraph
    <2>2. way # "split" /\ way' = way /\ words' = words /\ at' = at /\ ended' = ended
      BY <2>1 DEF Cutting!Reads, Cutting!splitting
    <2>3. BuildInv
      BY <2>2 DEF CutInv
    <2>4. BuildInv' /\ chunks' \in Seq(Chunk)
      BY <1>1, <1>6, <2>3, Heading1OK, Heading2OK, Heading3OK, TableOK, ListItemOK, ParagraphOK
    <2> QED
      BY <1>1, <1>2, <2>2, <2>4
  <1> QED
    BY <1>3, <1>4, <1>5, <1>6 DEF Cutting!Next

CutSide == side = "chunks" => CutInv

LEMMA CutSideHolds == AssistantSpec => []CutSide
  <1>1. AssistantInit => CutSide
    BY CutStart DEF AssistantInit, CutSide
  <1>2. CutSide /\ [AssistantNext]_assistantVars => CutSide'
    <2> SUFFICES ASSUME CutSide, [AssistantNext]_assistantVars, side' = "chunks" PROVE CutInv'
      BY DEF CutSide
    <2>1. side = "chunks" /\ [Cutting!Next]_(Cutting!vars)
      BY DEF AssistantNext, assistantVars, chunkVars, Cutting!vars, Cutting!building, Cutting!splitting
    <2> QED
      BY <2>1, CutGoesOn DEF CutSide
  <1> QED
    BY <1>1, <1>2, PTL DEF AssistantSpec


-----------------------------------------------------------------------------
(* What the invariant says of the chunks.                                  *)

LEMMA WiderSeq ==
  ASSUME NEW R, NEW T, R \subseteq T, NEW s \in Seq(R)
  PROVE  s \in Seq(T)
  OBVIOUS

LEMMA RunWithin ==
  ASSUME NEW lo \in Nat, NEW hi \in Nat, lo <= hi, NEW top \in Nat, hi <= top
  PROVE  Run(lo, hi) \in Seq(1..top)
  <1>1. Run(lo, hi) \in Seq(lo + 1..hi)
    BY RunIs
  <1>2. lo + 1..hi \subseteq 1..top
    OBVIOUS
  <1> QED
    BY <1>1, <1>2, WiderSeq

LEMMA StopsAre ==
  ASSUME BuildInv, chunks \in Seq(Chunk), NEW k \in 1..Len(chunks)
  PROVE  /\ Stop(chunks, k - 1) \in Nat /\ Stop(chunks, k) \in Nat /\ Stop(chunks, k) <= Len(blocks)
         /\ Stop(chunks, k - 1) < Stop(chunks, k)
         /\ chunks[k].text = Run(Stop(chunks, k - 1), Stop(chunks, k))
         /\ Cutting!Last(chunks[k].text) = Stop(chunks, k)
         /\ Head(chunks[k].text) = Stop(chunks, k - 1) + 1
         /\ chunks[k].text \in Seq(Nat) /\ chunks[k].text # << >>
  <1> DEFINE lo == Stop(chunks, k - 1)
             hi == Stop(chunks, k)
             text == chunks[k].text
  <1>1. /\ lo \in Nat /\ hi \in Nat /\ hi <= Len(blocks) /\ lo < hi
        /\ text = Run(lo, hi)
    BY DEF BuildInv, ChunkOK
  <1>2. hi = text[Len(text)]
    BY DEF Stop
  <1> HIDE DEF lo, hi, text
  <1>3. lo <= hi /\ hi - lo # 0
    BY <1>1
  <1>4. text \in Seq(Nat) /\ Len(text) = hi - lo /\ text[1] = lo + 1
    BY <1>1, <1>3, RunIs
  <1>5. text # << >> /\ Head(text) = text[1]
    BY <1>3, <1>4
  <1>6. Cutting!Last(text) = hi
    BY <1>2 DEF Cutting!Last
  <1> QED
    BY <1>1, <1>4, <1>5, <1>6 DEF lo, hi, text

LEMMA TextsJoin ==
  ASSUME BuildInv, chunks \in Seq(Chunk)
  PROVE  Cutting!FlattenSeq([k \in DOMAIN chunks |-> chunks[k].text]) = Run(0, Stop(chunks, Len(chunks)))
  <1> DEFINE texts == [k \in DOMAIN chunks |-> chunks[k].text]
             n == Len(chunks)
  <1>1. /\ n \in Nat /\ DOMAIN chunks = 1..n /\ texts \in Seq(Seq(Nat)) /\ Len(texts) = n
        /\ \A k \in 1..n : texts[k] = chunks[k].text
    <2>1. n \in Nat /\ DOMAIN chunks = 1..n /\ \A k \in 1..n : chunks[k].text \in Seq(Nat)
      BY StopsAre
    <2> DEFINE T == Seq(Nat)
    <2> HIDE DEF T
    <2>2. \A k \in 1..n : chunks[k].text \in T
      BY <2>1 DEF T
    <2>3. texts \in Seq(T) /\ Len(texts) = n
      BY <2>1, <2>2
    <2> QED
      BY <2>1, <2>3 DEF T
  <1>2. CASE n = 0
    <2>1. texts = << >> /\ Len(texts) = 0
      BY <1>1, <1>2
    <2>2. Run(0, 0) = << >>
      BY RunIs
    <2>3. Cutting!FlattenSeq(texts) = texts
      BY <2>1 DEF Cutting!FlattenSeq
    <2> QED
      BY <1>2, <2>1, <2>2, <2>3 DEF Stop
  <1>3. CASE n # 0
    <2> DEFINE F(f) == f = [i \in 1..n |-> IF i = 1 THEN texts[i] ELSE f[i - 1] \o texts[i]]
               f0 == [i \in 1..n |-> Run(0, Stop(chunks, i))]
               g == CHOOSE f : F(f)
    <2>1. \A i \in 1..n : i # 1 => i - 1 \in 1..n
      BY <1>1
    <2>2. ASSUME NEW i \in 1..n PROVE f0[i] = IF i = 1 THEN texts[i] ELSE f0[i - 1] \o texts[i]
      <3> DEFINE lo == Stop(chunks, i - 1)
                 hi == Stop(chunks, i)
      <3>1. lo \in Nat /\ hi \in Nat /\ lo < hi /\ texts[i] = Run(lo, hi)
        BY <1>1, StopsAre
      <3>2. f0[i] = Run(0, hi) /\ (i # 1 => f0[i - 1] = Run(0, lo))
        BY <2>1
      <3>3. i = 1 => lo = 0
        BY DEF Stop
      <3> HIDE DEF lo, hi, f0, texts
      <3>4. lo <= hi
        BY <3>1
      <3>5. Run(0, lo) \o Run(lo, hi) = Run(0, hi)
        BY <3>1, <3>4, RunsJoin
      <3> QED
        BY <3>1, <3>2, <3>3, <3>5
    <2>3. F(f0)
      <3>1. f0 = [i \in 1..n |-> f0[i]]
        OBVIOUS
      <3> HIDE DEF f0, texts
      <3> QED
        BY <2>2, <3>1
    <2>4. F(g)
      <3> HIDE DEF F
      <3> QED
        BY <2>3
    <2>5. Cutting!FlattenSeq(texts) = g[n]
      <3> HIDE DEF texts
      <3> QED
        BY <1>1, <1>3 DEF Cutting!FlattenSeq
    <2> HIDE DEF g
    <2>6. \A i \in 1..n : g[i] = IF i = 1 THEN texts[i] ELSE g[i - 1] \o texts[i]
      <3> HIDE DEF texts
      <3> QED
        BY <2>4
    <2> DEFINE Wrong == {i \in 1..n : g[i] # f0[i]}
    <2>7. Wrong = {}
      <3> SUFFICES ASSUME Wrong # {} PROVE FALSE
        OBVIOUS
      <3>1. Wrong \in SUBSET Nat
        BY <1>1
      <3>2. PICK i \in Wrong : \A j \in Wrong : i <= j
        BY <3>1, LeastNumber
      <3> HIDE DEF f0, texts
      <3>3. i \in 1..n /\ g[i] # f0[i]
        BY <3>2
      <3>4. i # 1
        BY <2>2, <2>6, <3>3
      <3>5. i - 1 \in 1..n /\ ~(i <= i - 1)
        BY <2>1, <3>3, <3>4
      <3>6. g[i - 1] = f0[i - 1]
        BY <3>2, <3>5
      <3> QED
        BY <2>2, <2>6, <3>3, <3>4, <3>6
    <2>8. n \in 1..n
      BY <1>1, <1>3
    <2>9. g[n] = f0[n] /\ f0[n] = Run(0, Stop(chunks, n))
      BY <2>7, <2>8
    <2> HIDE DEF f0, texts
    <2>10. Cutting!FlattenSeq(texts) = Run(0, Stop(chunks, n))
      BY <2>5, <2>9
    <2> QED
      BY <2>10 DEF texts
  <1> QED
    BY <1>2, <1>3

LEMMA BlocksAreKept ==
  ASSUME CutInv
  PROVE  Cutting!NothingIsLost
  <1>1. CASE way # "split"
    <2> DEFINE lo == Stop(chunks, Len(chunks))
               hi == Len(blocks)
    <2>1. BuildInv /\ chunks \in Seq(Chunk)
      BY <1>1 DEF CutInv
    <2>2. lo \in Nat /\ hi \in Nat /\ lo <= hi
      BY <2>1 DEF BuildInv
    <2>3. current = Run(lo, hi)
      <3>1. CASE ended
        <4>1. current = << >> /\ lo = hi
          BY <2>1, <3>1 DEF BuildInv
        <4> HIDE DEF lo, hi
        <4> QED
          BY <2>2, <4>1, RunIs
      <3>2. CASE ~ended
        BY <2>1, <3>2 DEF BuildInv
      <3> QED
        BY <3>1, <3>2
    <2>4. Cutting!FlattenSeq([k \in DOMAIN chunks |-> chunks[k].text]) = Run(0, lo)
      BY <2>1, TextsJoin
    <2>5. DOMAIN blocks = 1..hi
      BY <2>1 DEF BuildInv
    <2> HIDE DEF lo, hi
    <2>6. Run(0, lo) \o Run(lo, hi) = Run(0, hi)
      BY <2>2, RunsJoin
    <2>7. Run(0, hi) = [i \in DOMAIN blocks |-> i]
      <3>1. hi - 0 = hi /\ \A i \in 1..hi : 0 + i = i
        BY <2>2
      <3> QED
        BY <2>5, <3>1 DEF Run
    <2> QED
      BY <1>1, <2>3, <2>4, <2>6, <2>7 DEF Cutting!NothingIsLost
  <1>2. CASE way = "split"
    <2>1. SplitInv /\ chunks \in Seq(Chunk)
      BY <1>2 DEF CutInv
    <2>2. ASSUME NEW k \in 1..Len(chunks)
          PROVE  \E lo \in Nat : /\ Stop(chunks, k) \in Nat /\ Cutting!Last(chunks[k].text) = Stop(chunks, k)
                                 /\ Head(chunks[k].text) = lo + 1
                                 /\ k = 1 => lo = 0
                                 /\ k > 1 => lo = Stop(chunks, k - 1) - WindowOverlap
                                             /\ Stop(chunks, k - 1) < Stop(chunks, k)
      <3>1. PICK lo \in Nat : /\ lo < Stop(chunks, k) /\ chunks[k].text = Run(lo, Stop(chunks, k))
                              /\ k = 1 => lo = 0
                              /\ k > 1 => lo = Stop(chunks, k - 1) - WindowOverlap
                                          /\ Stop(chunks, k - 1) < Stop(chunks, k)
        BY <2>1 DEF SplitInv, WindowOK
      <3> DEFINE hi == Stop(chunks, k)
                 text == chunks[k].text
      <3>2. hi \in Nat
        BY <2>1 DEF SplitInv, WindowOK
      <3>3. hi = text[Len(text)]
        BY DEF Stop
      <3>4. lo < hi /\ text = Run(lo, hi)
        BY <3>1
      <3> HIDE DEF hi, text
      <3>5. lo <= hi /\ hi - lo # 0
        BY <3>2, <3>4
      <3>6. text \in Seq(Nat) /\ Len(text) = hi - lo /\ text[1] = lo + 1
        BY <3>2, <3>4, <3>5, RunIs
      <3>7. Head(text) = lo + 1 /\ Cutting!Last(text) = hi
        BY <3>3, <3>5, <3>6 DEF Cutting!Last
      <3> QED
        BY <3>1, <3>2, <3>7 DEF hi, text
    <2>3. DOMAIN chunks = 1..Len(chunks) /\ Len(chunks) \in Nat
      BY <2>1
    <2>4. ASSUME NEW k \in DOMAIN chunks \ {1}
          PROVE  /\ Head(chunks[k].text) = Cutting!Last(chunks[k - 1].text) - WindowOverlap + 1
                 /\ Cutting!Last(chunks[k].text) > Cutting!Last(chunks[k - 1].text)
      <3>1. k \in 1..Len(chunks) /\ k - 1 \in 1..Len(chunks) /\ k > 1
        BY <2>3
      <3>2. /\ Cutting!Last(chunks[k].text) = Stop(chunks, k) /\ Stop(chunks, k) \in Nat
            /\ Head(chunks[k].text) = Stop(chunks, k - 1) - WindowOverlap + 1
            /\ Stop(chunks, k - 1) < Stop(chunks, k)
        BY <2>2, <3>1
      <3>3. Cutting!Last(chunks[k - 1].text) = Stop(chunks, k - 1) /\ Stop(chunks, k - 1) \in Nat
        BY <2>2, <3>1
      <3> QED
        BY <3>2, <3>3
    <2>5. ASSUME ended
          PROVE  Head(chunks[1].text) = 1 /\ Cutting!Last(Cutting!Last(chunks).text) = words
      <3>1. Len(chunks) # 0 /\ Stop(chunks, Len(chunks)) = words
        BY <2>1, <2>5 DEF SplitInv
      <3>2. 1 \in 1..Len(chunks) /\ Len(chunks) \in 1..Len(chunks)
        BY <2>3, <3>1
      <3>3. Head(chunks[1].text) = 1
        BY <2>2, <3>2
      <3>4. Cutting!Last(chunks) = chunks[Len(chunks)]
        BY DEF Cutting!Last
      <3> QED
        BY <2>2, <3>1, <3>2, <3>3, <3>4
    <2> QED
      BY <1>2, <2>4, <2>5 DEF Cutting!NothingIsLost
  <1> QED
    BY <1>1, <1>2

LEMMA ChunksStayNear ==
  ASSUME CutInv
  PROVE  Cutting!ChunksAreBounded
  <1> SUFFICES ASSUME way # "split", NEW k \in DOMAIN chunks,
                      \A i \in DOMAIN chunks[k].text : blocks[chunks[k].text[i]].type # "table",
                      Cutting!Oversized(chunks[k].text)
               PROVE  /\ ~Cutting!Oversized(Cutting!Front(chunks[k].text))
                      /\ Len(chunks[k].text) = 1 \/ blocks[Cutting!Last(chunks[k].text)].type \in Cutting!Headings
    BY DEF Cutting!ChunksAreBounded
  <1> DEFINE lo == Stop(chunks, k - 1)
             hi == Stop(chunks, k)
             text == chunks[k].text
  <1>1. BuildInv /\ chunks \in Seq(Chunk) /\ k \in 1..Len(chunks)
    BY DEF CutInv
  <1>2. /\ lo \in Nat /\ hi \in Nat /\ hi <= Len(blocks) /\ lo < hi
        /\ text = Run(lo, hi) /\ Cutting!Last(text) = hi
    BY <1>1, StopsAre
  <1>3. Bounded(blocks, lo, hi) /\ blocks \in Seq(Block)
    BY <1>1 DEF BuildInv, ChunkOK
  <1>4. Cutting!Oversized(text) /\ \A i \in DOMAIN text : blocks[text[i]].type # "table"
    OBVIOUS
  <1> HIDE DEF lo, hi, text
  <1>5. lo <= hi /\ hi - 1 \in Nat /\ lo <= hi - 1 /\ (hi - 1) + 1 = hi /\ Len(blocks) \in Nat
    BY <1>2, <1>3
  <1>6. /\ DOMAIN text = 1..(hi - lo) /\ Len(text) = hi - lo
        /\ \A i \in 1..(hi - lo) : text[i] = lo + i
    <2>1. /\ DOMAIN Run(lo, hi) = 1..(hi - lo) /\ Len(Run(lo, hi)) = hi - lo
          /\ \A i \in 1..(hi - lo) : Run(lo, hi)[i] = lo + i
      BY <1>2, <1>5, RunIs
    <2> QED
      BY <1>2, <2>1
  <1>7. \A i \in lo + 1..hi : blocks[i].type # "table"
    <2> SUFFICES ASSUME NEW i \in lo + 1..hi PROVE blocks[i].type # "table"
      OBVIOUS
    <2>1. i - lo \in 1..(hi - lo) /\ lo + (i - lo) = i
      BY <1>2
    <2> QED
      BY <1>4, <1>6, <2>1
  <1>8. Weight(blocks, text) > TargetTokens
    BY <1>4, TokensAre DEF Cutting!Oversized
  <1>9. /\ Weight(blocks, Run(lo, hi - 1)) <= TargetTokens
        /\ hi = lo + 1 \/ blocks[hi].type \in Cutting!Headings
    BY <1>2, <1>3, <1>7, <1>8 DEF Bounded
  <1>10. Cutting!Front(text) = Run(lo, hi - 1)
    <2>1. SubSeq(Run(lo, (hi - 1) + 1), 1, Len(Run(lo, (hi - 1) + 1)) - 1) = Run(lo, hi - 1)
      BY <1>2, <1>5, RunGrows
    <2> QED
      BY <1>2, <1>5, <2>1 DEF Cutting!Front
  <1>11. Weight(blocks, Run(lo, hi - 1)) \in Nat
    <2>1. hi - 1 <= Len(blocks)
      BY <1>2, <1>5
    <2>2. Run(lo, hi - 1) \in Seq(1..Len(blocks))
      BY <1>2, <1>5, <2>1, RunWithin
    <2> QED
      BY <1>3, <2>2, WeightIsNat
  <1>12. ~Cutting!Oversized(Cutting!Front(text))
    BY <1>9, <1>10, <1>11, TokensAre, CutConstants DEF Cutting!Oversized
  <1>13. Len(text) = 1 \/ blocks[Cutting!Last(text)].type \in Cutting!Headings
    BY <1>2, <1>6, <1>9
  <1> QED
    BY <1>12, <1>13 DEF text

LEMMA SectionsAreNamed ==
  ASSUME CutInv
  PROVE  Cutting!BreadcrumbNamesTheSection /\ Cutting!OverlapIsFromBefore
  <1>1. ASSUME way # "split", NEW k \in DOMAIN chunks
        PROVE  /\ k \in 1..Len(chunks) /\ BuildInv /\ chunks \in Seq(Chunk)
               /\ ChunkOK(way, blocks, chunks, k)
    BY <1>1 DEF CutInv, BuildInv
  <1>2. ASSUME way # "split", NEW k \in DOMAIN chunks
        PROVE  LET end == Cutting!Last(chunks[k].text)
                   h1 == Cutting!LastOf("heading1", 1, end)
                   h2 == Cutting!LastOf("heading2", h1 + 1, end)
                   h3 == Cutting!LastOf("heading3", (IF h2 = 0 THEN h1 ELSE h2) + 1, end)
               IN  chunks[k].crumbs = <<h1, h2, h3>>
    <2> DEFINE c == chunks[k].crumbs
               end == Stop(chunks, k)
    <2>1. Cutting!Last(chunks[k].text) = end /\ end \in Nat /\ Section(blocks, end, c)
      BY <1>1, <1>2, StopsAre DEF ChunkOK
    <2> HIDE DEF c, end
    <2>2. /\ c[1] \in 0..end /\ c[2] \in 0..end /\ c[3] \in 0..end /\ Under(c) \in 1..end + 1
          /\ c = <<c[1], c[2], c[3]>>
      BY <2>1, CrumbsAre DEF Section
    <2>3. /\ LastIs(blocks, "heading1", 1, end, c[1])
          /\ LastIs(blocks, "heading2", c[1] + 1, end, c[2])
          /\ LastIs(blocks, "heading3", Under(c), end, c[3])
      BY <2>1 DEF Section
    <2>4. 1 \in Nat \ {0} /\ c[1] + 1 \in Nat \ {0} /\ Under(c) \in Nat \ {0}
      BY <2>1, <2>2
    <2>5. /\ Cutting!LastOf("heading1", 1, end) = c[1]
          /\ Cutting!LastOf("heading2", c[1] + 1, end) = c[2]
          /\ Cutting!LastOf("heading3", Under(c), end) = c[3]
      BY <2>1, <2>3, <2>4, LastIsUnique
    <2> QED
      BY <2>1, <2>2, <2>5 DEF Under, c
  <1>3. ASSUME way # "split", NEW k \in DOMAIN chunks
        PROVE  /\ chunks[k].overlap # 0 =>
                    /\ chunks[k].overlap = k - 1
                    /\ chunks[k].crumbs[1] = chunks[k - 1].crumbs[1]
               /\ k > 1 => chunks[k].page = Cutting!PageOf(Head(chunks[k].text))
    <2>1. Head(chunks[k].text) = Stop(chunks, k - 1) + 1
      BY <1>1, <1>3, StopsAre
    <2> QED
      BY <1>1, <1>3, <2>1, SameNext DEF ChunkOK
  <1>4. Cutting!BreadcrumbNamesTheSection
    BY <1>2 DEF Cutting!BreadcrumbNamesTheSection
  <1> QED
    BY <1>3, <1>4 DEF Cutting!OverlapIsFromBefore

LEMMA CutTypes ==
  ASSUME CutInv
  PROVE  Cutting!TypeOK
  <1>1. /\ way \in Cutting!Ways /\ ended \in BOOLEAN /\ chunks \in Seq(Chunk)
        /\ MaxBlocks \in Nat /\ MaxWords \in Nat \ {0} /\ DOMAIN chunks = 1..Len(chunks)
    BY CutConstants DEF CutInv
  <1>2. ASSUME NEW lo \in Nat, NEW hi \in Nat, lo <= hi, hi <= MaxBlocks + MaxWords
        PROVE  Run(lo, hi) \in Cutting!Numbers
    <2>1. Run(lo, hi) \in Seq(lo + 1..hi)
      BY <1>2, RunIs
    <2>2. lo + 1..hi \subseteq 1..(MaxBlocks + MaxWords)
      BY <1>1, <1>2
    <2> QED
      BY <2>1, <2>2, WiderSeq DEF Cutting!Numbers
  <1>3. CASE way # "split"
    <2>1. BuildInv /\ words = 0 /\ at = 0
      BY <1>3 DEF CutInv
    <2>2. /\ Len(blocks) \in Nat /\ Len(blocks) <= MaxBlocks /\ DOMAIN blocks = 1..Len(blocks)
          /\ \A i \in DOMAIN blocks : blocks[i] \in [type : Cutting!Types(way), tokens : Sizes]
          /\ page \in 0..MaxBlocks /\ repeated \in 0..Len(chunks)
      BY <2>1 DEF BuildInv
    <2>3. crumbs \in Seq(0..MaxBlocks) /\ Len(crumbs) = 3
      <3>1. crumbs \in Seq(0..Len(blocks)) /\ Len(crumbs) = 3
        BY <2>1 DEF BuildInv, Section
      <3>2. 0..Len(blocks) \subseteq 0..MaxBlocks
        BY <1>1, <2>2
      <3> QED
        BY <3>1, <3>2, WiderSeq
    <2>4. current \in Cutting!Numbers
      <3>1. PICK lo \in Nat, hi \in Nat : lo <= hi /\ hi = Len(blocks) /\ (~ended => current = Run(lo, hi))
        BY <2>1, <2>2 DEF BuildInv
      <3>2. CASE ~ended
        <4>1. hi <= MaxBlocks + MaxWords
          BY <1>1, <2>2, <3>1
        <4> QED
          BY <1>2, <3>1, <3>2, <4>1
      <3>3. CASE ended
        BY <2>1, <3>3 DEF BuildInv, Cutting!Numbers
      <3> QED
        BY <3>2, <3>3
    <2>5. ASSUME NEW k \in DOMAIN chunks PROVE chunks[k].text \in Cutting!Numbers
      <3>1. PICK lo \in Nat, hi \in Nat : lo < hi /\ hi <= Len(blocks) /\ chunks[k].text = Run(lo, hi)
        BY <1>1, <2>1, StopsAre
      <3>2. lo <= hi /\ hi <= MaxBlocks + MaxWords
        BY <1>1, <2>2, <3>1
      <3> QED
        BY <1>2, <3>1, <3>2
    <2>6. 0 \in 0..MaxWords
      BY <1>1
    <2> QED
      BY <1>1, <2>1, <2>2, <2>3, <2>4, <2>5, <2>6 DEF Cutting!TypeOK
  <1>4. CASE way = "split"
    <2>1. SplitInv
      BY <1>4 DEF CutInv
    <2>2. /\ blocks = << >> /\ current = << >> /\ crumbs = <<0, 0, 0>> /\ page = 0 /\ repeated = 0
          /\ words \in 1..MaxWords /\ at \in 0..words
          /\ \A k \in 1..Len(chunks) : WindowOK(chunks, k)
      BY <2>1 DEF SplitInv
    <2>3. ASSUME NEW k \in DOMAIN chunks PROVE chunks[k].text \in Cutting!Numbers
      <3>1. WindowOK(chunks, k)
        BY <1>1, <2>2
      <3>2. PICK lo \in Nat, hi \in Nat : lo < hi /\ hi <= words /\ chunks[k].text = Run(lo, hi)
        BY <2>2, <3>1 DEF WindowOK
      <3>3. lo <= hi /\ hi <= MaxBlocks + MaxWords
        BY <1>1, <2>2, <3>2
      <3> QED
        BY <1>2, <3>2, <3>3
    <2>4. /\ Len(blocks) = 0 /\ Len(blocks) <= MaxBlocks /\ DOMAIN blocks = {} /\ current \in Cutting!Numbers
      BY <1>1, <2>2 DEF Cutting!Numbers
    <2>5. crumbs \in Seq(0..MaxBlocks) /\ Len(crumbs) = 3 /\ page \in 0..MaxBlocks
          /\ repeated \in 0..Len(chunks) /\ words \in 0..MaxWords /\ at \in 0..MaxWords
      BY <1>1, <2>2
    <2> QED
      BY <1>1, <2>3, <2>4, <2>5 DEF Cutting!TypeOK
  <1> QED
    BY <1>3, <1>4

-----------------------------------------------------------------------------
(* What is found: rankings, and orders by score.                           *)

LEMMA SearchCounts == /\ \A S : Searching!Cardinality(S) = Cardinality(S)
                      /\ \A S : Searching!IsFiniteSet(S) <=> IsFiniteSet(S)
  BY DEF Searching!Cardinality, Cardinality, Searching!IsFiniteSet, IsFiniteSet

LEMMA SearchConstants ==
    /\ IsFiniteSet(Texts) /\ Cardinality(Texts) \in Nat /\ DocOf \in [Texts -> Documents]
    /\ Smoothing \in Nat /\ TopK \in Nat \ {0} /\ PerDocument \in Nat \ {0} /\ Boosts \subseteq Nat
    /\ Searching!Depth = 2 * TopK /\ Searching!Depth \in Nat \ {0} /\ Searching!Depth <= Smoothing + 1
    /\ Whole \in Nat \ {0}
    /\ \A p \in 1..Searching!Depth :
         (Smoothing + p) * (Whole \div (Smoothing + p)) = Whole /\ Whole \div (Smoothing + p) \in Nat
  <1>1. Searching!RetrievalAssumption
    BY AssistantAssumption
  <1>2. /\ IsFiniteSet(Texts) /\ DocOf \in [Texts -> Documents]
        /\ Smoothing \in Nat /\ TopK \in Nat \ {0} /\ PerDocument \in Nat \ {0} /\ Boosts \subseteq Nat
        /\ Searching!Depth = 2 * TopK /\ Searching!Depth <= Smoothing + 1
        /\ Whole \in Nat \ {0}
        /\ \A p \in 1..Searching!Depth : (Smoothing + p) * (Whole \div (Smoothing + p)) = Whole
    BY <1>1, SearchCounts DEF Searching!RetrievalAssumption, Searching!Depth
  <1>3. ASSUME NEW p \in 1..Searching!Depth PROVE Whole \div (Smoothing + p) \in Nat
    <2>1. Smoothing + p \in Nat \ {0} /\ Whole \in Nat
      BY <1>2
    <2> QED
      BY <2>1
  <1>4. Searching!Depth \in Nat \ {0}
    BY <1>2
  <1> QED
    BY <1>2, <1>3, <1>4, FS_CardinalityType

(* A sequence of so many different elements.                               *)
Spelled(s, n) == n \in Nat /\ s \in Seq(Texts) /\ Len(s) = n /\ Searching!Distinct(s)

LEMMA DistinctSize ==
  ASSUME NEW T, NEW s \in Seq(T), Searching!Distinct(s)
  PROVE  /\ IsFiniteSet(Searching!Elements(s)) /\ Cardinality(Searching!Elements(s)) = Len(s)
         /\ Searching!Elements(s) \subseteq T
  <1> DEFINE n == Len(s)
             S == Searching!Elements(s)
  <1>1. n \in Nat /\ DOMAIN s = 1..n /\ s = [i \in 1..n |-> s[i]]
    OBVIOUS
  <1>2. S = {s[i] : i \in 1..n}
    BY <1>1 DEF Searching!Elements
  <1>3. s \in Bijection(1..n, S)
    <2>1. s \in [1..n -> S]
      BY <1>1, <1>2
    <2>2. s \in Injection(1..n, S)
      BY <1>1, <2>1 DEF Injection, IsInjective, Searching!Distinct
    <2>3. s \in Surjection(1..n, S)
      BY <1>2, <2>1 DEF Surjection
    <2> QED
      BY <2>2, <2>3 DEF Bijection
  <1>4. IsFiniteSet(1..n) /\ Cardinality(1..n) = n
    <2> HIDE DEF n
    <2>1. 1 \in Int /\ n \in Int /\ n \in Nat
      BY <1>1
    <2>2. IsFiniteSet(1..n) /\ Cardinality(1..n) = IF 1 > n THEN 0 ELSE n - 1 + 1
      BY <2>1, FS_Interval
    <2>3. (IF 1 > n THEN 0 ELSE n - 1 + 1) = n
      BY <2>1
    <2> QED
      BY <2>2, <2>3
  <1>5. IsFiniteSet(S) /\ Cardinality(S) = n
    <2>1. ExistsBijection(1..n, S)
      BY <1>3 DEF ExistsBijection
    <2> QED
      BY <1>4, <2>1, FS_Bijection
  <1>6. S \subseteq T
    BY <1>1, <1>2
  <1> QED
    BY <1>5, <1>6

LEMMA RankingIs ==
  ASSUME NEW s
  PROVE  s \in Searching!Rankings <=>
            s \in Seq(Texts) /\ Searching!Distinct(s) /\ Len(s) <= Searching!Depth
  <1> DEFINE D == Searching!Depth
             C == Cardinality(Texts)
             top == IF D < C THEN D ELSE C
  <1>1. D \in Nat /\ C \in Nat /\ IsFiniteSet(Texts)
    BY SearchConstants
  <1>2. Searching!Rankings = UNION {{t \in [1..n -> Texts] : Searching!Distinct(t)} : n \in 0..top}
    BY SearchCounts DEF Searching!Rankings
  <1>3. ASSUME s \in Searching!Rankings
        PROVE  s \in Seq(Texts) /\ Searching!Distinct(s) /\ Len(s) <= D
    <2>1. PICK n \in 0..top : s \in [1..n -> Texts] /\ Searching!Distinct(s)
      BY <1>2, <1>3
    <2>2. n \in Nat /\ n <= D
      BY <1>1, <2>1
    <2>3. s \in Seq(Texts) /\ Len(s) = n
      BY <2>1, <2>2
    <2> QED
      BY <2>1, <2>2, <2>3
  <1>4. ASSUME s \in Seq(Texts), Searching!Distinct(s), Len(s) <= D
        PROVE  s \in Searching!Rankings
    <2>1. Cardinality(Searching!Elements(s)) = Len(s) /\ Searching!Elements(s) \in SUBSET Texts
      BY <1>4, DistinctSize
    <2>2. Len(s) <= C
      BY <1>1, <2>1, FS_Subset
    <2>3. Len(s) \in 0..top /\ s \in [1..Len(s) -> Texts]
      BY <1>1, <1>4, <2>2
    <2> QED
      BY <1>2, <1>4, <2>3
  <1> QED
    BY <1>3, <1>4

LEMMA PlaceIs ==
  ASSUME NEW T, NEW s \in Seq(T), Searching!Distinct(s)
  PROVE  /\ \A i \in 1..Len(s) : s[i] \in Searching!Elements(s) /\ Searching!Place(s, s[i]) = i
         /\ \A c \in Searching!Elements(s) : /\ Searching!Place(s, c) \in 1..Len(s)
                                             /\ s[Searching!Place(s, c)] = c
  <1>1. DOMAIN s = 1..Len(s)
    OBVIOUS
  <1>2. \A c \in Searching!Elements(s) : /\ Searching!Place(s, c) \in 1..Len(s)
                                         /\ s[Searching!Place(s, c)] = c
    BY <1>1 DEF Searching!Elements, Searching!Place
  <1>3. \A i \in 1..Len(s) : s[i] \in Searching!Elements(s)
    BY <1>1 DEF Searching!Elements
  <1> QED
    BY <1>1, <1>2, <1>3 DEF Searching!Distinct

(* An order by score has all that is found, and no score rises in it.      *)
LEMMA SortedIs ==
  ASSUME NEW found \in SUBSET Texts, NEW scores \in [Texts -> Nat],
         NEW s \in Searching!Sorted(found, scores)
  PROVE  /\ s \in Seq(Texts) /\ Searching!Distinct(s) /\ Searching!Elements(s) = found
         /\ Len(s) = Cardinality(found)
         /\ \A i, j \in 1..Len(s) : i <= j => scores[s[i]] >= scores[s[j]]
  <1> DEFINE n == Cardinality(found)
  <1>1. IsFiniteSet(found) /\ n \in Nat
    BY SearchConstants, FS_Subset, FS_CardinalityType
  <1>2. s \in [1..n -> found] /\ Searching!Distinct(s)
        /\ \A i \in DOMAIN s : i > 1 => scores[s[i - 1]] >= scores[s[i]]
    BY SearchCounts DEF Searching!Sorted
  <1> HIDE DEF n
  <1>3. s \in Seq(found) /\ Len(s) = n /\ DOMAIN s = 1..n /\ s \in Seq(Texts)
    BY <1>1, <1>2
  <1>4. Searching!Elements(s) = found
    <2>1. Cardinality(Searching!Elements(s)) = n /\ Searching!Elements(s) \in SUBSET found
      BY <1>2, <1>3, DistinctSize
    <2> QED
      BY <1>1, <2>1, FS_Subset DEF n
  <1>5. ASSUME NEW i \in 1..n, NEW j \in 1..n, i <= j PROVE scores[s[i]] >= scores[s[j]]
    <2> DEFINE Wrong == {k \in i..n : ~(scores[s[i]] >= scores[s[k]])}
    <2> SUFFICES ASSUME Wrong # {} PROVE FALSE
      BY <1>1, <1>5
    <2>1. Wrong \in SUBSET Nat
      BY <1>1
    <2>2. PICK k \in Wrong : \A m \in Wrong : k <= m
      BY <2>1, LeastNumber
    <2>3. \A m \in 1..n : scores[s[m]] \in Nat
      BY <1>2
    <2>4. k \in i..n /\ k \in 1..n /\ k # i
      BY <1>1, <2>2, <2>3
    <2>5. k - 1 \in i..n /\ k - 1 \in 1..n /\ k > 1 /\ ~(k <= k - 1)
      BY <1>1, <2>4
    <2>6. scores[s[i]] >= scores[s[k - 1]] /\ scores[s[k - 1]] >= scores[s[k]]
      BY <1>2, <1>3, <2>2, <2>4, <2>5
    <2>7. scores[s[i]] >= scores[s[k]]
      BY <2>3, <2>4, <2>5, <2>6
    <2> QED
      BY <2>2, <2>7
  <1> QED
    BY <1>2, <1>3, <1>4, <1>5 DEF n

LEMMA CutIs ==
  ASSUME NEW T, NEW s \in Seq(T), Searching!Distinct(s), NEW n \in Nat
  PROVE  LET t == Searching!Cut(s, n)
         IN  /\ t \in Seq(T) /\ Searching!Distinct(t)
             /\ Len(t) = IF Len(s) < n THEN Len(s) ELSE n
             /\ \A i \in 1..Len(t) : t[i] = s[i]
  <1> DEFINE m == IF Len(s) < n THEN Len(s) ELSE n
             t == Searching!Cut(s, n)
  <1>1. m \in Nat /\ m <= Len(s) /\ Len(s) \in Nat
    OBVIOUS
  <1>2. t = SubSeq(s, 1, m)
    BY DEF Searching!Cut
  <1> HIDE DEF m, t
  <1>3. t \in Seq(T) /\ Len(t) = m /\ \A i \in 1..m : t[i] = s[i]
    BY <1>1, <1>2
  <1>4. Searching!Distinct(t)
    <2>1. DOMAIN t = 1..m /\ DOMAIN s = 1..Len(s) /\ \A i \in 1..m : i \in 1..Len(s)
      BY <1>1, <1>3
    <2> QED
      BY <1>3, <2>1 DEF Searching!Distinct
  <1> QED
    BY <1>3, <1>4 DEF m, t


-----------------------------------------------------------------------------
(* What a place is worth.                                                  *)

LEMMA Smaller ==
  ASSUME NEW a \in Nat, NEW b \in Nat, NEW x \in Nat, NEW y \in Nat,
         b # 0, x < y, x * a = y * b
  PROVE  a > b
  <1> SUFFICES ASSUME a <= b PROVE FALSE
    OBVIOUS
  <1>1. x * a <= x * b
    <2>1. PICK d \in Nat : b = a + d
      <3>1. b - a \in Nat /\ b = a + (b - a)
        OBVIOUS
      <3> QED
        BY <3>1
    <2>2. x * b = x * a + x * d /\ x * d \in Nat /\ x * a \in Nat
      BY <2>1
    <2> QED
      BY <2>2
  <1>2. x * b < y * b
    <2>1. PICK e \in Nat : y = x + e /\ e # 0
      <3>1. y - x \in Nat /\ y = x + (y - x) /\ y - x # 0
        OBVIOUS
      <3> QED
        BY <3>1
    <2>2. y * b = x * b + e * b /\ x * b \in Nat
      BY <2>1
    <2>3. e * b \in Nat /\ e * b # 0
      BY <2>1
    <2> QED
      BY <2>2, <2>3
  <1>3. x * a \in Nat /\ x * b \in Nat /\ y * b \in Nat
    OBVIOUS
  <1> QED
    BY <1>1, <1>2, <1>3

Worth(p) == Whole \div (Smoothing + p)

LEMMA WorthFalls ==
  ASSUME NEW p \in 1..Searching!Depth, NEW q \in 1..Searching!Depth
  PROVE  /\ Worth(p) \in Nat \ {0}
         /\ p < q => Worth(p) > Worth(q)
         /\ p <= q => Worth(p) >= Worth(q)
  <1>1. /\ Smoothing \in Nat /\ Whole \in Nat \ {0} /\ Searching!Depth \in Nat
        /\ \A r \in 1..Searching!Depth : (Smoothing + r) * Worth(r) = Whole /\ Worth(r) \in Nat
    BY SearchConstants DEF Worth
  <1>2. \A r \in 1..Searching!Depth : Worth(r) # 0
    <2> SUFFICES ASSUME NEW r \in 1..Searching!Depth, Worth(r) = 0 PROVE FALSE
      OBVIOUS
    <2>1. (Smoothing + r) * 0 = Whole
      BY <1>1
    <2>2. Smoothing + r \in Nat
      BY <1>1
    <2> QED
      BY <1>1, <2>1, <2>2
  <1>3. ASSUME p < q PROVE Worth(p) > Worth(q)
    <2> DEFINE x == Smoothing + p
               y == Smoothing + q
    <2>1. x \in Nat /\ y \in Nat /\ x < y
      BY <1>1, <1>3
    <2>2. x * Worth(p) = y * Worth(q) /\ Worth(p) \in Nat /\ Worth(q) \in Nat /\ Worth(q) # 0
      BY <1>1, <1>2
    <2> HIDE DEF x, y
    <2> QED
      BY <2>1, <2>2, Smaller
  <1>4. p = q \/ p < q \/ q < p
    BY <1>1
  <1>5. Worth(p) \in Nat /\ Worth(q) \in Nat
    BY <1>1
  <1> QED
    BY <1>2, <1>3, <1>4, <1>5

(* Two places together beat any one.                                       *)
LEMMA TwoBeatOne ==
  ASSUME NEW p \in 1..Searching!Depth, NEW q \in 1..Searching!Depth, NEW r \in 1..Searching!Depth
  PROVE  Worth(p) + Worth(q) > Worth(r)
  <1> DEFINE D == Searching!Depth
             m == Worth(D)
             t == Worth(1)
  <1>1. /\ Smoothing \in Nat /\ Whole \in Nat \ {0} /\ D \in Nat \ {0} /\ D <= Smoothing + 1
        /\ \A k \in 1..D : (Smoothing + k) * Worth(k) = Whole /\ Worth(k) \in Nat
    BY SearchConstants DEF Worth
  <1>2. 1 \in 1..D /\ D \in 1..D /\ p <= D /\ q <= D /\ 1 <= r
    BY <1>1
  <1>3. Worth(p) >= m /\ Worth(q) >= m /\ t >= Worth(r) /\ m \in Nat \ {0} /\ t \in Nat
        /\ Worth(p) \in Nat /\ Worth(q) \in Nat /\ Worth(r) \in Nat
    BY <1>2, WorthFalls
  <1>4. 2 * m > t
    <2> DEFINE x == Smoothing + D
               y == Smoothing + 1
    <2>1. x * m = Whole /\ y * t = Whole
      BY <1>1, <1>2
    <2>2. x \in Nat /\ y \in Nat /\ x < 2 * y
      BY <1>1
    <2> HIDE DEF x, y, m, t
    <2>3. y * (2 * m) = (2 * y) * m
      BY <1>3, <2>2
    <2>4. x * m < (2 * y) * m
      <3>1. PICK e \in Nat : 2 * y = x + e /\ e # 0
        <4>1. 2 * y - x \in Nat /\ 2 * y = x + (2 * y - x) /\ 2 * y - x # 0
          BY <2>2
        <4> QED
          BY <4>1
      <3>2. (2 * y) * m = x * m + e * m /\ x * m \in Nat
        BY <1>3, <2>2, <3>1
      <3>3. e * m \in Nat /\ e * m # 0
        BY <1>3, <3>1
      <3> QED
        BY <3>2, <3>3
    <2>5. y * t < y * (2 * m)
      BY <2>1, <2>3, <2>4
    <2>6. ASSUME 2 * m <= t PROVE FALSE
      <3>1. PICK e \in Nat : t = 2 * m + e
        <4>1. t - 2 * m \in Nat /\ t = 2 * m + (t - 2 * m)
          BY <1>3, <2>6
        <4> QED
          BY <4>1
      <3>2. y * t = y * (2 * m) + y * e /\ y * e \in Nat /\ y * (2 * m) \in Nat
        BY <1>3, <2>2, <3>1
      <3> QED
        BY <2>5, <3>2
    <2> QED
      BY <1>3, <2>6
  <1> HIDE DEF m, t
  <1> QED
    BY <1>3, <1>4

LEMMA ShareIs ==
  ASSUME NEW s \in Searching!Rankings, NEW c
  PROVE  /\ Searching!Share(s, c) \in Nat
         /\ c \notin Searching!Elements(s) => Searching!Share(s, c) = 0
         /\ c \in Searching!Elements(s) => /\ Searching!Place(s, c) \in 1..Searching!Depth
                                           /\ Searching!Share(s, c) = Worth(Searching!Place(s, c))
                                           /\ Searching!Share(s, c) # 0
  <1>1. s \in Seq(Texts) /\ Searching!Distinct(s) /\ Len(s) <= Searching!Depth /\ Searching!Depth \in Nat
    BY RankingIs, SearchConstants
  <1>2. c \notin Searching!Elements(s) => Searching!Share(s, c) = 0
    BY DEF Searching!Share
  <1>3. ASSUME c \in Searching!Elements(s)
        PROVE  /\ Searching!Place(s, c) \in 1..Searching!Depth
               /\ Searching!Share(s, c) = Worth(Searching!Place(s, c))
    <2>1. Searching!Place(s, c) \in 1..Len(s)
      BY <1>1, <1>3, PlaceIs
    <2>2. Searching!Place(s, c) \in 1..Searching!Depth
      BY <1>1, <2>1
    <2> QED
      BY <1>3, <2>2 DEF Searching!Share, Worth
  <1> QED
    BY <1>2, <1>3, WorthFalls

LEMMA BeforeIsMore ==
  ASSUME NEW s \in Searching!Rankings, NEW c, NEW d
  PROVE  /\ Searching!IsBefore(s, c, d) => Searching!Share(s, c) > Searching!Share(s, d)
         /\ ~Searching!IsBefore(s, d, c) => Searching!Share(s, c) >= Searching!Share(s, d)
  <1> DEFINE x == Searching!Place(s, c)
             y == Searching!Place(s, d)
  <1>1. /\ Searching!Share(s, c) \in Nat /\ Searching!Share(s, d) \in Nat
        /\ c \notin Searching!Elements(s) => Searching!Share(s, c) = 0
        /\ d \notin Searching!Elements(s) => Searching!Share(s, d) = 0
        /\ c \in Searching!Elements(s) => x \in 1..Searching!Depth /\ Searching!Share(s, c) = Worth(x)
                                          /\ Searching!Share(s, c) # 0
        /\ d \in Searching!Elements(s) => y \in 1..Searching!Depth /\ Searching!Share(s, d) = Worth(y)
    BY ShareIs
  <1>2. Searching!Depth \in Nat
    BY SearchConstants
  <1>3. ASSUME Searching!IsBefore(s, c, d) PROVE Searching!Share(s, c) > Searching!Share(s, d)
    <2>1. c \in Searching!Elements(s) /\ (d \notin Searching!Elements(s) \/ x < y)
      BY <1>3 DEF Searching!IsBefore
    <2>2. CASE d \notin Searching!Elements(s)
      BY <1>1, <2>1, <2>2
    <2>3. CASE d \in Searching!Elements(s)
      BY <1>1, <2>1, <2>3, WorthFalls
    <2> QED
      BY <2>2, <2>3
  <1>4. ASSUME ~Searching!IsBefore(s, d, c) PROVE Searching!Share(s, c) >= Searching!Share(s, d)
    <2>1. CASE d \notin Searching!Elements(s)
      BY <1>1, <2>1
    <2>2. CASE d \in Searching!Elements(s)
      <3>1. c \in Searching!Elements(s) /\ ~(y < x)
        BY <1>4, <2>2 DEF Searching!IsBefore
      <3>2. x \in 1..Searching!Depth /\ y \in 1..Searching!Depth /\ x <= y
        BY <1>1, <1>2, <2>2, <3>1
      <3> QED
        BY <1>1, <2>2, <3>1, <3>2, WorthFalls
    <2> QED
      BY <2>1, <2>2
  <1> QED
    BY <1>3, <1>4

Beats(v, f, c, d) ==
    \/ /\ Searching!IsBefore(v, c, d) /\ ~Searching!IsBefore(f, d, c)
    \/ /\ Searching!IsBefore(f, c, d) /\ ~Searching!IsBefore(v, d, c)
    \/ /\ c \in Searching!Elements(v) \cap Searching!Elements(f)
       /\ d \notin Searching!Elements(v) \cap Searching!Elements(f)

LEMMA BeatingIsMore ==
  ASSUME NEW v \in Searching!Rankings, NEW f \in Searching!Rankings, NEW c, NEW d, Beats(v, f, c, d)
  PROVE  Searching!Share(v, c) + Searching!Share(f, c) > Searching!Share(v, d) + Searching!Share(f, d)
  <1> DEFINE vc == Searching!Share(v, c)
             fc == Searching!Share(f, c)
             vd == Searching!Share(v, d)
             fd == Searching!Share(f, d)
  <1>1. vc \in Nat /\ fc \in Nat /\ vd \in Nat /\ fd \in Nat
    BY ShareIs
  <1>2. CASE Searching!IsBefore(v, c, d) /\ ~Searching!IsBefore(f, d, c)
    <2>1. vc > vd /\ fc >= fd
      BY <1>2, BeforeIsMore
    <2> HIDE DEF vc, fc, vd, fd
    <2>2. vc + fc > vd + fd
      BY <1>1, <2>1
    <2> QED
      BY <2>2 DEF vc, fc, vd, fd
  <1>3. CASE Searching!IsBefore(f, c, d) /\ ~Searching!IsBefore(v, d, c)
    <2>1. fc > fd /\ vc >= vd
      BY <1>3, BeforeIsMore
    <2> HIDE DEF vc, fc, vd, fd
    <2>2. vc + fc > vd + fd
      BY <1>1, <2>1
    <2> QED
      BY <2>2 DEF vc, fc, vd, fd
  <1>4. CASE /\ c \in Searching!Elements(v) \cap Searching!Elements(f)
             /\ d \notin Searching!Elements(v) \cap Searching!Elements(f)
    <2>1. /\ Searching!Place(v, c) \in 1..Searching!Depth /\ vc = Worth(Searching!Place(v, c))
          /\ Searching!Place(f, c) \in 1..Searching!Depth /\ fc = Worth(Searching!Place(f, c))
          /\ vc # 0 /\ fc # 0
      BY <1>4, ShareIs
    <2>2. CASE d \in Searching!Elements(v)
      <3>1. Searching!Place(v, d) \in 1..Searching!Depth /\ vd = Worth(Searching!Place(v, d)) /\ fd = 0
        BY <1>4, <2>2, ShareIs
      <3>2. vc + fc > vd
        BY <2>1, <3>1, TwoBeatOne
      <3> HIDE DEF vc, fc, vd, fd
      <3>3. vc + fc > vd + fd
        BY <1>1, <3>1, <3>2
      <3> QED
        BY <3>3 DEF vc, fc, vd, fd
    <2>3. CASE d \in Searching!Elements(f)
      <3>1. Searching!Place(f, d) \in 1..Searching!Depth /\ fd = Worth(Searching!Place(f, d)) /\ vd = 0
        BY <1>4, <2>3, ShareIs
      <3>2. vc + fc > fd
        BY <2>1, <3>1, TwoBeatOne
      <3> HIDE DEF vc, fc, vd, fd
      <3>3. vc + fc > vd + fd
        BY <1>1, <3>1, <3>2
      <3> QED
        BY <3>3 DEF vc, fc, vd, fd
    <2>4. CASE d \notin Searching!Elements(v) /\ d \notin Searching!Elements(f)
      <3>1. vd = 0 /\ fd = 0
        BY <2>4, ShareIs
      <3> HIDE DEF vc, fc, vd, fd
      <3>2. vc + fc > vd + fd
        BY <1>1, <2>1, <3>1
      <3> QED
        BY <3>2 DEF vc, fc, vd, fd
    <2> QED
      BY <2>2, <2>3, <2>4
  <1> QED
    BY <1>2, <1>3, <1>4 DEF Beats


LEMMA FusionOK ==
  ASSUME NEW v \in Searching!Rankings, NEW f \in Searching!Rankings, NEW scores \in [Texts -> Nat],
         \A c \in Texts : scores[c] = Searching!Share(v, c) + Searching!Share(f, c),
         NEW s \in Searching!Sorted(Searching!Elements(v) \cup Searching!Elements(f), scores),
         NEW n \in Nat, n <= Searching!Depth
  PROVE  /\ Searching!Cut(s, n) \in Searching!Rankings
         /\ \A c, d \in Searching!Elements(v) \cup Searching!Elements(f) :
              Beats(v, f, c, d) => ~Searching!IsBefore(Searching!Cut(s, n), d, c)
  <1> DEFINE found == Searching!Elements(v) \cup Searching!Elements(f)
             r == Searching!Cut(s, n)
  <1>1. found \in SUBSET Texts
    BY RankingIs, DistinctSize
  <1>2. /\ s \in Seq(Texts) /\ Searching!Distinct(s) /\ Searching!Elements(s) = found
        /\ \A i, j \in 1..Len(s) : i <= j => scores[s[i]] >= scores[s[j]]
    <2> HIDE DEF found
    <2>1. s \in Searching!Sorted(found, scores)
      BY DEF found
    <2> QED
      BY <1>1, <2>1, SortedIs
  <1>3. /\ r \in Seq(Texts) /\ Searching!Distinct(r)
        /\ Len(r) = IF Len(s) < n THEN Len(s) ELSE n
        /\ \A i \in 1..Len(r) : r[i] = s[i]
    BY <1>2, CutIs
  <1>4. Searching!Depth \in Nat /\ Len(s) \in Nat
    BY <1>2, SearchConstants
  <1> HIDE DEF r
  <1>5. Len(r) <= Searching!Depth /\ Len(r) \in Nat /\ Len(r) <= Len(s)
    BY <1>3, <1>4
  <1>6. r \in Searching!Rankings
    BY <1>3, <1>5, RankingIs
  <1>7. ASSUME NEW c \in found, NEW d \in found, Beats(v, f, c, d), Searching!IsBefore(r, d, c) PROVE FALSE
    <2> DEFINE i == Searching!Place(r, d)
               j == Searching!Place(s, c)
    <2>1. d \in Searching!Elements(r) /\ (c \notin Searching!Elements(r) \/ i < Searching!Place(r, c))
      BY <1>7 DEF Searching!IsBefore
    <2>2. i \in 1..Len(r) /\ r[i] = d /\ i \in 1..Len(s) /\ s[i] = d
      BY <1>3, <1>5, <2>1, PlaceIs
    <2>3. j \in 1..Len(s) /\ s[j] = c
      BY <1>2, PlaceIs
    <2>4. i <= j
      <3>1. CASE j \in 1..Len(r)
        <4>1. r[j] = c
          BY <1>3, <2>3, <3>1
        <4>2. c \in Searching!Elements(r) /\ Searching!Place(r, c) = j
          BY <1>3, <3>1, <4>1, PlaceIs
        <4> QED
          BY <1>5, <2>1, <2>2, <2>3, <4>2
      <3>2. CASE j \notin 1..Len(r)
        BY <1>5, <2>2, <2>3, <3>2
      <3> QED
        BY <3>1, <3>2
    <2>5. scores[d] >= scores[c]
      BY <1>2, <2>2, <2>3, <2>4
    <2>6. c \in Texts /\ d \in Texts
      BY <1>1
    <2>7. scores[c] > scores[d]
      BY <1>7, <2>6, BeatingIsMore
    <2>8. scores[c] \in Nat /\ scores[d] \in Nat
      BY <2>6
    <2> QED
      BY <2>5, <2>7, <2>8
  <1> QED
    BY <1>6, <1>7 DEF r

-----------------------------------------------------------------------------
(* The spreading over documents: which places are taken first.             *)

LEMMA GreatestNumber ==
  ASSUME NEW n \in Nat, NEW J \in SUBSET (1..n), J # {}
  PROVE  \E i \in J : \A j \in J : j <= i
  <1> DEFINE T == {m \in 0..n : n - m \in J}
  <1>1. \A j \in J : n - j \in T
    OBVIOUS
  <1>2. T \in SUBSET Nat /\ T # {}
    <2>1. PICK j : j \in J
      OBVIOUS
    <2>2. n - j \in T
      BY <1>1, <2>1
    <2> QED
      BY <2>2
  <1>3. PICK m \in T : \A k \in T : m <= k
    BY <1>2, LeastNumber
  <1>4. n - m \in J /\ m \in Nat
    BY <1>3
  <1>5. ASSUME NEW j \in J PROVE j <= n - m
    <2>1. m <= n - j /\ j \in Nat
      BY <1>1, <1>3
    <2> QED
      BY <1>4, <2>1
  <1> QED
    BY <1>4, <1>5

InTime(s, i) == Searching!Before(s, i) < PerDocument
Sieve(F, s, taken, n) ==
    F = [i \in 0..n |-> IF i = 0 THEN << >>
                        ELSE IF taken <=> Searching!Before(s, i) < PerDocument THEN Append(F[i - 1], i)
                        ELSE F[i - 1]]

LEMMA SieveExists ==
  ASSUME NEW s, NEW taken \in BOOLEAN
  PROVE  \A n \in Nat : \E F : Sieve(F, s, taken, n)
  <1> DEFINE Without == {n \in Nat : ~\E F : Sieve(F, s, taken, n)}
  <1> SUFFICES ASSUME Without # {} PROVE FALSE
    OBVIOUS
  <1>1. PICK n \in Nat : n \in Without /\ \A m \in Without : n <= m
    BY LeastNumber
  <1>2. CASE n = 0
    <2>1. Sieve([i \in 0..0 |-> << >>], s, taken, 0)
      BY DEF Sieve
    <2> QED
      BY <1>1, <1>2, <2>1
  <1>3. CASE n # 0
    <2>1. n - 1 \in Nat /\ n - 1 \notin Without
      BY <1>1, <1>3
    <2>2. PICK F : Sieve(F, s, taken, n - 1)
      BY <2>1
    <2> DEFINE Way(x, i) == IF taken <=> Searching!Before(s, i) < PerDocument THEN Append(x, i) ELSE x
               new == Way(F[n - 1], n)
               G == [i \in 0..n |-> IF i = n THEN new ELSE F[i]]
    <2>3. F = [i \in 0..n - 1 |-> IF i = 0 THEN << >> ELSE Way(F[i - 1], i)]
      BY <2>2 DEF Sieve
    <2>4. \A i \in 0..n - 1 : G[i] = F[i] /\ i # n /\ i \in 0..n
      BY <1>1, <1>3
    <2> HIDE DEF Way
    <2>5. \A i \in 0..n : G[i] = IF i = 0 THEN << >> ELSE Way(G[i - 1], i)
      <3> SUFFICES ASSUME NEW i \in 0..n PROVE G[i] = IF i = 0 THEN << >> ELSE Way(G[i - 1], i)
        OBVIOUS
      <3>1. CASE i = n
        <4>1. G[n - 1] = F[n - 1] /\ G[n] = new
          BY <1>1, <1>3, <2>4
        <4> QED
          BY <1>3, <3>1, <4>1
      <3>2. CASE i # n
        <4>1. i \in 0..n - 1
          BY <1>1, <3>2
        <4>2. F[i] = IF i = 0 THEN << >> ELSE Way(F[i - 1], i)
          BY <2>3, <4>1
        <4>3. i # 0 => i - 1 \in 0..n - 1
          BY <4>1, <1>1
        <4> QED
          BY <2>4, <4>1, <4>2, <4>3
      <3> QED
        BY <3>1, <3>2
    <2>6. G = [i \in 0..n |-> G[i]]
      OBVIOUS
    <2> HIDE DEF G
    <2>7. Sieve(G, s, taken, n)
      BY <2>5, <2>6 DEF Sieve, Way
    <2> QED
      BY <1>1, <2>7
  <1> QED
    BY <1>2, <1>3

LEMMA PlacesAre ==
  ASSUME NEW s \in Seq(Texts), NEW taken \in BOOLEAN
  PROVE  LET t == Searching!Places(s, taken)
         IN  /\ t \in Seq(Nat) /\ Searching!Distinct(t)
             /\ Searching!Elements(t) = {j \in 1..Len(s) : taken <=> InTime(s, j)}
  <1> DEFINE n == Len(s)
             F == CHOOSE F : F = [i \in 0..n |-> IF i = 0 THEN << >>
                                    ELSE IF taken <=> Searching!Before(s, i) < PerDocument THEN Append(F[i - 1], i)
                                    ELSE F[i - 1]]
             Ranks(i) == {j \in 1..i : taken <=> InTime(s, j)}
             Good(i) == F[i] \in Seq(Nat) /\ Searching!Distinct(F[i]) /\ Searching!Elements(F[i]) = Ranks(i)
  <1>1. n \in Nat
    OBVIOUS
  <1>2. Searching!Places(s, taken) = F[n]
    BY Zenon DEF Searching!Places
  <1>3. Sieve(F, s, taken, n)
    <2>1. PICK G : Sieve(G, s, taken, n)
      BY <1>1, SieveExists
    <2> QED
      BY <2>1 DEF Sieve
  <1> HIDE DEF F
  <1>4. \A i \in 0..n : F[i] = IF i = 0 THEN << >>
                               ELSE IF taken <=> InTime(s, i) THEN Append(F[i - 1], i) ELSE F[i - 1]
    BY <1>3 DEF Sieve, InTime
  <1> HIDE DEF n
  <1>5. ASSUME NEW i \in 0..n, i = 0 PROVE Good(i)
    <2>1. F[i] = << >> /\ DOMAIN << >> = {}
      BY <1>4, <1>5
    <2>2. Ranks(i) = {}
      BY <1>5
    <2>3. Searching!Elements(F[i]) = {}
      BY <2>1 DEF Searching!Elements
    <2>4. Searching!Distinct(F[i])
      BY <2>1 DEF Searching!Distinct
    <2> QED
      BY <2>1, <2>2, <2>3, <2>4
  <1>6. ASSUME NEW i \in 0..n, i # 0, Good(i - 1) PROVE Good(i)
    <2> DEFINE t == F[i - 1]
    <2>1. i \in Nat /\ i \in 1..i /\ \A j \in 1..i : j = i \/ j \in 1..i - 1
      BY <1>1, <1>6
    <2>2. t \in Seq(Nat) /\ Searching!Distinct(t) /\ Searching!Elements(t) = Ranks(i - 1)
      BY <1>6
    <2>3. \A j \in 1..i - 1 : j \in 1..i
      BY <2>1
    <2> HIDE DEF t
    <2>4. CASE taken <=> InTime(s, i)
      <3> DEFINE u == Append(t, i)
      <3>1. F[i] = u
        BY <1>4, <1>6, <2>4 DEF t
      <3>2. /\ u \in Seq(Nat) /\ DOMAIN u = 1..Len(t) + 1 /\ DOMAIN t = 1..Len(t) /\ Len(t) \in Nat
            /\ u[Len(t) + 1] = i /\ \A k \in 1..Len(t) : u[k] = t[k]
        BY <2>1, <2>2
      <3>3. \A k \in 1..Len(t) + 1 : k \in 1..Len(t) \/ k = Len(t) + 1
        BY <3>2
      <3>4. Len(t) + 1 \in 1..Len(t) + 1 /\ \A k \in 1..Len(t) : k \in 1..Len(t) + 1
        BY <3>2
      <3> HIDE DEF u
      <3>5. Searching!Elements(u) = Searching!Elements(t) \cup {i}
        BY <3>2, <3>3, <3>4 DEF Searching!Elements
      <3>6. Ranks(i) = Ranks(i - 1) \cup {i}
        BY <2>1, <2>3, <2>4
      <3>7. \A k \in 1..Len(t) : t[k] # i
        <4>1. \A k \in 1..Len(t) : t[k] \in Ranks(i - 1)
          BY <2>2, <3>2 DEF Searching!Elements
        <4>2. i \notin 1..i - 1
          BY <2>1
        <4> QED
          BY <4>1, <4>2
      <3>8. Searching!Distinct(u)
        BY <2>2, <3>2, <3>3, <3>7 DEF Searching!Distinct
      <3> QED
        BY <2>2, <3>1, <3>2, <3>5, <3>6, <3>8
    <2>5. CASE ~(taken <=> InTime(s, i))
      <3>1. F[i] = t
        BY <1>4, <1>6, <2>5 DEF t
      <3>2. Ranks(i) = Ranks(i - 1)
        BY <2>1, <2>3, <2>5
      <3> QED
        BY <2>2, <3>1, <3>2
    <2> QED
      BY <2>4, <2>5
  <1> HIDE DEF Good
  <1> DEFINE Wrong == {i \in 0..n : ~Good(i)}
  <1>7. Wrong = {}
    <2> SUFFICES ASSUME Wrong # {} PROVE FALSE
      OBVIOUS
    <2>1. Wrong \in SUBSET Nat
      BY <1>1
    <2>2. PICK i \in Wrong : \A m \in Wrong : i <= m
      BY <2>1, LeastNumber
    <2>3. i \in 0..n /\ i # 0
      BY <1>5, <2>2
    <2>4. i - 1 \in 0..n /\ ~(i <= i - 1)
      BY <1>1, <2>3
    <2>5. Good(i - 1)
      BY <2>2, <2>4
    <2> QED
      BY <1>6, <2>2, <2>3, <2>5
  <1>8. Good(n)
    BY <1>1, <1>7
  <1> QED
    BY <1>2, <1>8 DEF Good, n


LEMMA OrderIs ==
  ASSUME NEW s \in Seq(Texts)
  PROVE  LET order == Searching!Selected(s)
             m == Len(Searching!Places(s, TRUE))
         IN  /\ order \in Seq(Nat) /\ Len(order) = Len(s) /\ Searching!Distinct(order)
             /\ Searching!Elements(order) = 1..Len(s)
             /\ m \in 0..Len(s)
             /\ \A k \in 1..m : InTime(s, order[k])
             /\ \A k \in m + 1..Len(s) : ~InTime(s, order[k])
  <1> DEFINE n == Len(s)
             p == Searching!Places(s, TRUE)
             q == Searching!Places(s, FALSE)
             order == Searching!Selected(s)
             m == Len(p)
  <1>1. p \in Seq(Nat) /\ Searching!Distinct(p) /\ Searching!Elements(p) = {j \in 1..n : InTime(s, j)}
    <2>1. TRUE \in BOOLEAN
      OBVIOUS
    <2> QED
      BY <2>1, PlacesAre
  <1>2. q \in Seq(Nat) /\ Searching!Distinct(q) /\ Searching!Elements(q) = {j \in 1..n : ~InTime(s, j)}
    <2>1. FALSE \in BOOLEAN
      OBVIOUS
    <2> QED
      BY <2>1, PlacesAre
  <1>3. order = p \o q /\ n \in Nat
    BY DEF Searching!Selected
  <1> HIDE DEF p, q, order, n
  <1>4. /\ order \in Seq(Nat) /\ Len(order) = m + Len(q) /\ m \in Nat /\ Len(q) \in Nat
        /\ DOMAIN order = 1..m + Len(q) /\ DOMAIN p = 1..m /\ DOMAIN q = 1..Len(q)
        /\ \A k \in 1..m + Len(q) : order[k] = IF k <= m THEN p[k] ELSE q[k - m]
    BY <1>1, <1>2, <1>3
  <1> HIDE DEF m
  <1>5. ASSUME NEW k \in 1..m PROVE k \in 1..m + Len(q) /\ order[k] = p[k] /\ order[k] \in Searching!Elements(p)
    <2>1. k \in 1..m + Len(q) /\ k <= m
      BY <1>4
    <2>2. order[k] = p[k] /\ p[k] \in Searching!Elements(p)
      BY <1>4, <2>1 DEF Searching!Elements
    <2> QED
      BY <2>1, <2>2
  <1>6. ASSUME NEW k \in 1..m + Len(q), ~(k <= m)
        PROVE  k - m \in 1..Len(q) /\ order[k] = q[k - m] /\ order[k] \in Searching!Elements(q)
    <2>1. k - m \in 1..Len(q)
      BY <1>4, <1>6
    <2>2. order[k] = q[k - m] /\ q[k - m] \in Searching!Elements(q)
      BY <1>4, <1>6, <2>1 DEF Searching!Elements
    <2> QED
      BY <2>1, <2>2
  <1>7. \A k \in 1..m + Len(q) : k <= m => k \in 1..m
    BY <1>4
  <1>8. Searching!Elements(order) = 1..n
    <2>1. \A k \in 1..m + Len(q) : order[k] \in 1..n
      BY <1>1, <1>2, <1>5, <1>6, <1>7
    <2>2. ASSUME NEW j \in 1..n PROVE \E k \in 1..m + Len(q) : order[k] = j
      <3>1. CASE InTime(s, j)
        <4>1. PICK k \in 1..m : p[k] = j
          BY <1>1, <1>4, <3>1 DEF Searching!Elements
        <4> QED
          BY <1>5, <4>1
      <3>2. CASE ~InTime(s, j)
        <4>1. PICK k \in 1..Len(q) : q[k] = j
          BY <1>2, <1>4, <3>2 DEF Searching!Elements
        <4>2. m + k \in 1..m + Len(q) /\ ~(m + k <= m) /\ (m + k) - m = k
          BY <1>4
        <4> QED
          BY <1>6, <4>1, <4>2
      <3> QED
        BY <3>1, <3>2
    <2>3. Searching!Elements(order) = {order[k] : k \in 1..m + Len(q)}
      BY <1>4 DEF Searching!Elements
    <2> QED
      BY <2>1, <2>2, <2>3
  <1>9. Searching!Distinct(order)
    <2> SUFFICES ASSUME NEW k \in 1..m + Len(q), NEW l \in 1..m + Len(q), order[k] = order[l] PROVE k = l
      BY <1>4 DEF Searching!Distinct
    <2>1. CASE k <= m /\ l <= m
      <3>1. k \in 1..m /\ l \in 1..m /\ p[k] = p[l]
        BY <1>5, <1>7, <2>1
      <3> QED
        BY <1>1, <1>4, <3>1 DEF Searching!Distinct
    <2>2. CASE ~(k <= m) /\ ~(l <= m)
      <3>1. k - m \in 1..Len(q) /\ l - m \in 1..Len(q) /\ q[k - m] = q[l - m]
        BY <1>6, <2>2
      <3>2. k - m = l - m
        BY <1>2, <1>4, <3>1 DEF Searching!Distinct
      <3> QED
        BY <1>4, <3>2
    <2>3. CASE k <= m /\ ~(l <= m)
      BY <1>1, <1>2, <1>5, <1>6, <1>7, <2>3
    <2>4. CASE ~(k <= m) /\ l <= m
      BY <1>1, <1>2, <1>5, <1>6, <1>7, <2>4
    <2> QED
      BY <2>1, <2>2, <2>3, <2>4
  <1>10. Len(order) = n
    <2>1. Cardinality(Searching!Elements(order)) = Len(order)
      BY <1>4, <1>9, DistinctSize
    <2>2. Cardinality(1..n) = IF 1 > n THEN 0 ELSE n - 1 + 1
      <3>1. 1 \in Int /\ n \in Int
        BY <1>3
      <3> QED
        BY <3>1, FS_Interval
    <2>3. (IF 1 > n THEN 0 ELSE n - 1 + 1) = n
      BY <1>3
    <2> QED
      BY <1>8, <2>1, <2>2, <2>3
  <1>11. \A k \in 1..m : InTime(s, order[k])
    BY <1>1, <1>5
  <1>12. \A k \in m + 1..n : ~InTime(s, order[k])
    <2> SUFFICES ASSUME NEW k \in m + 1..n PROVE ~InTime(s, order[k])
      OBVIOUS
    <2>1. k \in 1..m + Len(q) /\ ~(k <= m)
      BY <1>3, <1>4, <1>10
    <2> QED
      BY <1>2, <1>6, <2>1
  <1>13. m \in 0..n
    BY <1>3, <1>4, <1>10
  <1> QED
    BY <1>4, <1>8, <1>9, <1>10, <1>11, <1>12, <1>13 DEF order, m, p, n

(* No more places of a document are taken in time than its share, and if   *)
(* one of them is passed over, its share was taken before.                 *)
OfDoc(s, d, n) == {j \in 1..n : DocOf[s[j]] = d}

LEMMA BeforeIs ==
  ASSUME NEW s \in Seq(Texts), NEW i \in 1..Len(s)
  PROVE  /\ Searching!Before(s, i) = Cardinality(OfDoc(s, DocOf[s[i]], i - 1))
         /\ IsFiniteSet(OfDoc(s, DocOf[s[i]], i - 1)) /\ Searching!Before(s, i) \in Nat
  <1>1. i - 1 \in Int /\ 1 \in Int
    OBVIOUS
  <1>2. IsFiniteSet(1..(i - 1))
    BY <1>1, FS_Interval
  <1>3. OfDoc(s, DocOf[s[i]], i - 1) \in SUBSET (1..(i - 1))
    BY DEF OfDoc
  <1>4. IsFiniteSet(OfDoc(s, DocOf[s[i]], i - 1))
    BY <1>2, <1>3, FS_Subset
  <1>5. Searching!Before(s, i) = Cardinality(OfDoc(s, DocOf[s[i]], i - 1))
    BY SearchCounts DEF Searching!Before, OfDoc
  <1> QED
    BY <1>4, <1>5, FS_CardinalityType

LEMMA InTimeAreFew ==
  ASSUME NEW s \in Seq(Texts), NEW d
  PROVE  LET J == {j \in OfDoc(s, d, Len(s)) : InTime(s, j)}
         IN  IsFiniteSet(J) /\ Cardinality(J) <= PerDocument
  <1> DEFINE n == Len(s)
             J == {j \in OfDoc(s, d, n) : InTime(s, j)}
  <1>1. n \in Nat /\ PerDocument \in Nat
    BY SearchConstants
  <1>2. J \in SUBSET (1..n)
    BY DEF OfDoc
  <1>3. IsFiniteSet(J)
    <2>1. n \in Int /\ 1 \in Int
      BY <1>1
    <2>2. IsFiniteSet(1..n)
      BY <2>1, FS_Interval
    <2> QED
      BY <1>2, <2>2, FS_Subset
  <1>4. CASE J = {}
    BY <1>1, <1>3, <1>4, FS_EmptySet
  <1>5. CASE J # {}
    <2>1. PICK i \in J : \A j \in J : j <= i
      <3> HIDE DEF J, n
      <3> QED
        BY <1>1, <1>2, <1>5, GreatestNumber
    <2>2. i \in 1..n /\ DocOf[s[i]] = d /\ InTime(s, i)
      BY <1>2, <2>1 DEF OfDoc
    <2> DEFINE B == OfDoc(s, d, i - 1)
    <2>3. IsFiniteSet(B) /\ Cardinality(B) < PerDocument /\ Cardinality(B) \in Nat
      BY <2>2, BeforeIs DEF InTime
    <2>4. J \ {i} \in SUBSET B
      <3> SUFFICES ASSUME NEW j \in J, j # i PROVE j \in B
        OBVIOUS
      <3>1. j \in 1..n /\ DocOf[s[j]] = d /\ j <= i
        BY <1>2, <2>1 DEF OfDoc
      <3>2. j \in 1..(i - 1)
        BY <1>1, <2>2, <3>1
      <3> QED
        BY <3>1, <3>2 DEF OfDoc
    <2> HIDE DEF J, B
    <2>5. Cardinality(J \ {i}) <= Cardinality(B) /\ Cardinality(J \ {i}) = Cardinality(J) - 1
      BY <1>3, <2>1, <2>3, <2>4, FS_Subset, FS_RemoveElement
    <2>6. Cardinality(J) \in Nat
      BY <1>3, FS_CardinalityType
    <2>7. Cardinality(J) <= PerDocument
      BY <1>1, <2>3, <2>5, <2>6
    <2> QED
      BY <1>3, <2>7 DEF J, n
  <1> QED
    BY <1>4, <1>5

LEMMA PassedOverAfterShare ==
  ASSUME NEW s \in Seq(Texts), NEW d, NEW i \in OfDoc(s, d, Len(s)), ~InTime(s, i)
  PROVE  \E B \in SUBSET OfDoc(s, d, Len(s)) :
            /\ IsFiniteSet(B) /\ Cardinality(B) >= PerDocument /\ \A j \in B : InTime(s, j)
  <1> DEFINE n == Len(s)
             Over == {j \in OfDoc(s, d, n) : ~InTime(s, j)}
  <1>1. n \in Nat /\ PerDocument \in Nat
    BY SearchConstants
  <1>2. Over \in SUBSET Nat /\ Over # {}
    BY DEF OfDoc
  <1>3. PICK k \in Over : \A j \in Over : k <= j
    <2> HIDE DEF Over
    <2> QED
      BY <1>2, LeastNumber
  <1>4. k \in 1..n /\ DocOf[s[k]] = d /\ ~InTime(s, k)
    BY <1>3 DEF OfDoc
  <1> DEFINE B == OfDoc(s, d, k - 1)
  <1>5. IsFiniteSet(B) /\ Cardinality(B) >= PerDocument
    <2>1. Searching!Before(s, k) = Cardinality(B) /\ IsFiniteSet(B) /\ Searching!Before(s, k) \in Nat
      BY <1>4, BeforeIs
    <2>2. ~(Searching!Before(s, k) < PerDocument)
      BY <1>4 DEF InTime
    <2> QED
      BY <1>1, <2>1, <2>2
  <1>6. ASSUME NEW j \in B PROVE j \in OfDoc(s, d, n) /\ InTime(s, j)
    <2>1. j \in 1..(k - 1) /\ DocOf[s[j]] = d
      BY DEF OfDoc
    <2>2. j \in 1..n /\ ~(k <= j)
      BY <1>1, <1>4, <2>1
    <2>3. j \in OfDoc(s, d, n)
      BY <2>1, <2>2 DEF OfDoc
    <2> QED
      BY <1>3, <2>2, <2>3
  <1>7. B \in SUBSET OfDoc(s, d, n)
    BY <1>6
  <1> QED
    BY <1>5, <1>6, <1>7


Mixed(fs, rs) ==
    \A d, e \in Documents :
        Cardinality(Searching!OfDocument(rs, d)) > PerDocument =>
            \/ Searching!OfDocument(fs, e) \subseteq Searching!Elements(rs)
            \/ Cardinality(Searching!OfDocument(rs, e)) >= PerDocument

LEMMA SpreadOK ==
  ASSUME NEW s \in Searching!Rankings, NEW fs, Searching!Elements(fs) = Searching!Elements(s)
  PROVE  LET order == Searching!Selected(s)
             rs == Searching!Cut([i \in DOMAIN order |-> s[order[i]]], TopK)
         IN  /\ rs \in Searching!Rankings
             /\ Len(rs) = IF Len(s) < TopK THEN Len(s) ELSE TopK
             /\ Mixed(fs, rs)
  <1> DEFINE order == Searching!Selected(s)
             all == [i \in DOMAIN order |-> s[order[i]]]
             rs == Searching!Cut(all, TopK)
             n == Len(s)
             m == Len(Searching!Places(s, TRUE))
  <1>1. s \in Seq(Texts) /\ Searching!Distinct(s) /\ n \in Nat /\ DOMAIN s = 1..n /\ n <= Searching!Depth
    BY RankingIs
  <1>2. /\ TopK \in Nat \ {0} /\ PerDocument \in Nat \ {0} /\ TopK <= Searching!Depth /\ IsFiniteSet(Texts)
        /\ DocOf \in [Texts -> Documents] /\ Searching!Depth \in Nat
    BY SearchConstants
  <1>3. /\ order \in Seq(Nat) /\ Len(order) = n /\ Searching!Distinct(order)
        /\ Searching!Elements(order) = 1..n /\ m \in 0..n
        /\ \A k \in 1..m : InTime(s, order[k])
        /\ \A k \in m + 1..n : ~InTime(s, order[k])
    BY <1>1, OrderIs
  <1> HIDE DEF order, m, n
  <1>4. /\ DOMAIN order = 1..n /\ \A k \in 1..n : order[k] \in 1..n
        /\ \A j \in 1..n : \E k \in 1..n : order[k] = j
    <2>1. DOMAIN order = 1..n
      BY <1>3
    <2> QED
      BY <1>3, <2>1 DEF Searching!Elements
  <1>5. all \in Seq(Texts) /\ Len(all) = n /\ DOMAIN all = 1..n /\ \A k \in 1..n : all[k] = s[order[k]]
    <2>1. \A k \in 1..n : s[order[k]] \in Texts
      BY <1>1, <1>4
    <2> QED
      BY <1>1, <1>4, <2>1
  <1>6. Searching!Distinct(all)
    <2> SUFFICES ASSUME NEW k \in 1..n, NEW l \in 1..n, s[order[k]] = s[order[l]] PROVE k = l
      BY <1>5 DEF Searching!Distinct
    <2>1. order[k] = order[l]
      BY <1>1, <1>4 DEF Searching!Distinct
    <2> QED
      BY <1>3, <1>4, <2>1 DEF Searching!Distinct
  <1> HIDE DEF all
  <1>7. /\ rs \in Seq(Texts) /\ Searching!Distinct(rs)
        /\ Len(rs) = IF n < TopK THEN n ELSE TopK
        /\ \A k \in 1..Len(rs) : rs[k] = all[k]
    <2>1. TopK \in Nat
      BY <1>2
    <2> QED
      BY <1>5, <1>6, <2>1, CutIs
  <1> HIDE DEF rs
  <1>8. Len(rs) \in Nat /\ Len(rs) <= n /\ Len(rs) <= Searching!Depth /\ DOMAIN rs = 1..Len(rs)
    BY <1>1, <1>2, <1>7
  <1>9. rs \in Searching!Rankings
    BY <1>7, <1>8, RankingIs
  <1>10. \A k \in 1..Len(rs) : k \in 1..n /\ rs[k] = s[order[k]]
    BY <1>1, <1>5, <1>7, <1>8
  <1>11. Searching!Elements(rs) \subseteq Texts /\ \A k \in 1..Len(rs) : rs[k] \in Searching!Elements(rs)
    BY <1>7, <1>8 DEF Searching!Elements
  <1>12. ASSUME NEW d \in Documents, Cardinality(Searching!OfDocument(rs, d)) > PerDocument
         PROVE  \E k \in 1..Len(rs) : ~InTime(s, order[k])
    <2> SUFFICES ASSUME \A k \in 1..Len(rs) : InTime(s, order[k]) PROVE FALSE
      OBVIOUS
    <2> DEFINE J == {j \in OfDoc(s, d, n) : InTime(s, j)}
               T == {s[j] : j \in J}
               O == Searching!OfDocument(rs, d)
    <2>1. IsFiniteSet(J) /\ Cardinality(J) <= PerDocument
      BY <1>1, InTimeAreFew DEF n
    <2>2. O \in SUBSET T
      <3> SUFFICES ASSUME NEW c \in O PROVE c \in T
        OBVIOUS
      <3>1. c \in Searching!Elements(rs) /\ DocOf[c] = d
        BY DEF Searching!OfDocument
      <3>2. PICK k \in 1..Len(rs) : rs[k] = c
        BY <1>8, <3>1 DEF Searching!Elements
      <3>3. order[k] \in 1..n /\ s[order[k]] = c /\ InTime(s, order[k])
        BY <1>4, <1>10, <3>2
      <3>4. order[k] \in J
        BY <3>1, <3>3 DEF OfDoc
      <3> QED
        BY <3>3, <3>4
    <2>3. IsFiniteSet(T) /\ Cardinality(T) <= Cardinality(J)
      <3> DEFINE g == [j \in J |-> s[j]]
      <3>1. g \in Surjection(J, T)
        BY DEF Surjection
      <3> HIDE DEF J, T, g
      <3> QED
        BY <2>1, <3>1, FS_Surjection
    <2> HIDE DEF J, T, O
    <2>4. IsFiniteSet(O) /\ Cardinality(O) <= Cardinality(T)
      BY <2>2, <2>3, FS_Subset
    <2>5. Cardinality(O) \in Nat /\ Cardinality(T) \in Nat /\ Cardinality(J) \in Nat
      BY <2>1, <2>3, <2>4, FS_CardinalityType
    <2>6. Cardinality(O) > PerDocument
      BY <1>12 DEF O
    <2> QED
      BY <1>2, <2>1, <2>3, <2>4, <2>5, <2>6
  <1>13. ASSUME NEW k \in 1..Len(rs), ~InTime(s, order[k]), NEW j \in 1..n, InTime(s, j)
         PROVE  s[j] \in Searching!Elements(rs)
    <2>1. ~(k <= m)
      <3>1. k \in Nat /\ 1 <= k
        OBVIOUS
      <3> QED
        BY <1>3, <1>13, <3>1
    <2>2. PICK l \in 1..n : order[l] = j
      BY <1>4
    <2>3. l \notin m + 1..n
      BY <1>3, <1>13, <2>2
    <2>4. l \in 1..Len(rs)
      BY <1>1, <1>3, <1>8, <2>1, <2>2, <2>3
    <2> QED
      BY <1>10, <1>11, <2>2, <2>4
  <1>14. ASSUME NEW e \in Documents, ~(Searching!OfDocument(fs, e) \subseteq Searching!Elements(rs)),
                NEW k \in 1..Len(rs), ~InTime(s, order[k])
         PROVE  Cardinality(Searching!OfDocument(rs, e)) >= PerDocument
    <2>1. PICK c : c \in Searching!Elements(s) /\ DocOf[c] = e /\ c \notin Searching!Elements(rs)
      BY <1>14 DEF Searching!OfDocument
    <2>2. PICK i \in 1..n : s[i] = c
      BY <1>1, <2>1 DEF Searching!Elements
    <2>3. i \in OfDoc(s, e, n) /\ ~InTime(s, i)
      BY <1>13, <1>14, <2>1, <2>2 DEF OfDoc
    <2>4. PICK B \in SUBSET OfDoc(s, e, n) :
            /\ IsFiniteSet(B) /\ Cardinality(B) >= PerDocument /\ \A j \in B : InTime(s, j)
      BY <1>1, <2>3, PassedOverAfterShare DEF n
    <2> DEFINE O == Searching!OfDocument(rs, e)
               g == [j \in B |-> s[j]]
    <2>5. \A j \in B : j \in 1..n /\ s[j] \in O
      <3> SUFFICES ASSUME NEW j \in B PROVE j \in 1..n /\ s[j] \in O
        OBVIOUS
      <3>1. j \in 1..n /\ DocOf[s[j]] = e
        BY <2>4 DEF OfDoc
      <3>2. s[j] \in Searching!Elements(rs)
        BY <1>13, <1>14, <2>4, <3>1
      <3> QED
        BY <3>1, <3>2 DEF Searching!OfDocument
    <2>6. IsFiniteSet(O)
      <3>1. O \in SUBSET Texts
        BY <1>11 DEF Searching!OfDocument
      <3> HIDE DEF O
      <3> QED
        BY <1>2, <3>1, FS_Subset
    <2>7. g \in Injection(B, O)
      BY <1>1, <2>5 DEF Injection, IsInjective, Searching!Distinct
    <2> HIDE DEF O, g
    <2>8. Cardinality(B) <= Cardinality(O)
      BY <2>6, <2>7, FS_Injection
    <2>9. Cardinality(B) \in Nat /\ Cardinality(O) \in Nat
      BY <2>4, <2>6, FS_CardinalityType
    <2>10. Cardinality(O) >= PerDocument
      BY <1>2, <2>4, <2>8, <2>9
    <2> QED
      BY <2>10 DEF O
  <1>15. Mixed(fs, rs)
    BY <1>12, <1>14 DEF Mixed
  <1> QED
    BY <1>7, <1>9, <1>15 DEF rs, all, order, n

-----------------------------------------------------------------------------
(* A search, step by step.                                                 *)

SearchInv ==
    /\ searched \in {"document", "library"}
    /\ step \in {"vector", "fts", "fuse", "boost", "spread", "answered"}
    /\ vector \in Searching!Rankings /\ fts \in Searching!Rankings
    /\ fused \in Searching!Rankings /\ chosen \in Searching!Rankings
    /\ score \in [Texts -> Nat] /\ boost \in [Documents -> Nat]
    /\ step \in {"vector", "fts", "fuse"} => fused = << >>
    /\ fused # << >> =>
         \A c, d \in Searching!Elements(vector) \cup Searching!Elements(fts) :
             Beats(vector, fts, c, d) => ~Searching!IsBefore(fused, d, c)
    /\ step = "spread" => Searching!Elements(chosen) = Searching!Elements(fused) /\ Len(chosen) = Len(fused)
    /\ step = "answered" /\ searched = "library" =>
         /\ Len(chosen) = IF Len(fused) < TopK THEN Len(fused) ELSE TopK
         /\ Mixed(fused, chosen)

LEMMA EmptyRanking == << >> \in Searching!Rankings
  <1>1. << >> \in Seq(Texts) /\ Len(<< >>) = 0 /\ DOMAIN << >> = {}
    OBVIOUS
  <1>2. Searching!Distinct(<< >>)
    BY <1>1 DEF Searching!Distinct
  <1>3. 0 <= Searching!Depth
    BY SearchConstants
  <1> QED
    BY <1>1, <1>2, <1>3, RankingIs

LEMMA SearchStart == Searching!Init => SearchInv
  <1> SUFFICES ASSUME Searching!Init PROVE SearchInv
    OBVIOUS
  <1>1. boost \in [Documents -> Nat]
    <2>1. PICK B : B \subseteq Nat /\ boost \in [Documents -> B]
      <3>1. Boosts \subseteq Nat /\ {0} \subseteq Nat
        BY SearchConstants
      <3> QED
        BY <3>1 DEF Searching!Init
    <2> QED
      BY <2>1
  <1> QED
    BY <1>1, EmptyRanking DEF Searching!Init, SearchInv

LEMMA SearchFuses ==
  ASSUME SearchInv, Searching!ReciprocalRankFusion
  PROVE  SearchInv'
  <1>1. /\ step = "fuse" /\ step' = IF searched = "library" THEN "boost" ELSE "answered"
        /\ searched' = searched /\ vector' = vector /\ fts' = fts /\ boost' = boost
        /\ score' = [c \in Texts |-> Searching!Share(vector, c) + Searching!Share(fts, c)]
        /\ chosen' = fused'
    BY DEF Searching!ReciprocalRankFusion, Searching!Goes
  <1>2. PICK s \in Searching!Sorted(Searching!Elements(vector) \cup Searching!Elements(fts), score') :
          fused' = Searching!Cut(s, IF searched = "library" THEN Searching!Depth ELSE TopK)
    BY DEF Searching!ReciprocalRankFusion
  <1>3. vector \in Searching!Rankings /\ fts \in Searching!Rankings
    BY DEF SearchInv
  <1>4. score' \in [Texts -> Nat]
    <2>1. \A c \in Texts : Searching!Share(vector, c) + Searching!Share(fts, c) \in Nat
      <3>1. \A c \in Texts : Searching!Share(vector, c) \in Nat /\ Searching!Share(fts, c) \in Nat
        BY <1>3, ShareIs
      <3> QED
        BY <3>1
    <2> QED
      BY <1>1, <2>1
  <1>5. \A c \in Texts : score'[c] = Searching!Share(vector, c) + Searching!Share(fts, c)
    BY <1>1
  <1> DEFINE n == IF searched = "library" THEN Searching!Depth ELSE TopK
  <1>6. n \in Nat /\ n <= Searching!Depth
    BY SearchConstants
  <1>7. fused' = Searching!Cut(s, n)
    BY <1>2
  <1> HIDE DEF n
  <1>8. /\ fused' \in Searching!Rankings
        /\ \A c, d \in Searching!Elements(vector) \cup Searching!Elements(fts) :
             Beats(vector, fts, c, d) => ~Searching!IsBefore(fused', d, c)
    BY <1>2, <1>3, <1>4, <1>5, <1>6, <1>7, FusionOK
  <1>9. step' \in {"boost", "answered"} /\ (step' = "answered" => searched' # "library")
    BY <1>1
  <1>10. searched \in {"document", "library"} /\ boost \in [Documents -> Nat]
    BY DEF SearchInv
  <1> QED
    BY <1>1, <1>3, <1>4, <1>8, <1>9, <1>10 DEF SearchInv

LEMMA SearchBoosts ==
  ASSUME SearchInv, Searching!ApplyGlobalSocialBoost
  PROVE  SearchInv'
  <1>1. /\ step = "boost" /\ step' = "spread"
        /\ searched' = searched /\ vector' = vector /\ fts' = fts /\ boost' = boost /\ fused' = fused
        /\ score' = [c \in Texts |-> IF c \in Searching!Elements(fused) THEN score[c] + boost[DocOf[c]]
                                     ELSE score[c]]
        /\ chosen' \in Searching!Sorted(Searching!Elements(fused), score')
    BY DEF Searching!ApplyGlobalSocialBoost, Searching!Goes
  <1>2. score' \in [Texts -> Nat]
    <2>1. score \in [Texts -> Nat] /\ boost \in [Documents -> Nat] /\ DocOf \in [Texts -> Documents]
      BY SearchConstants DEF SearchInv
    <2>2. \A c \in Texts : score[c] + boost[DocOf[c]] \in Nat /\ score[c] \in Nat
      BY <2>1
    <2> QED
      BY <1>1, <2>2
  <1>3. /\ fused \in Seq(Texts) /\ Searching!Distinct(fused) /\ Len(fused) <= Searching!Depth
        /\ Searching!Elements(fused) \in SUBSET Texts
        /\ Len(fused) = Cardinality(Searching!Elements(fused))
    BY RankingIs, DistinctSize DEF SearchInv
  <1>4. /\ chosen' \in Seq(Texts) /\ Searching!Distinct(chosen')
        /\ Searching!Elements(chosen') = Searching!Elements(fused)
        /\ Len(chosen') = Len(fused)
    BY <1>1, <1>2, <1>3, SortedIs
  <1>5. chosen' \in Searching!Rankings
    BY <1>3, <1>4, RankingIs
  <1> QED
    BY <1>1, <1>2, <1>4, <1>5 DEF SearchInv

LEMMA SearchSpreads ==
  ASSUME SearchInv, Searching!DiversifyChunksByDocument
  PROVE  SearchInv'
  <1> DEFINE order == Searching!Selected(chosen)
             rs == Searching!Cut([i \in DOMAIN order |-> chosen[order[i]]], TopK)
  <1>1. /\ step = "spread" /\ step' = "answered"
        /\ searched' = searched /\ vector' = vector /\ fts' = fts /\ boost' = boost /\ fused' = fused
        /\ score' = score /\ chosen' = rs
    BY DEF Searching!DiversifyChunksByDocument, Searching!Goes
  <1>2. /\ chosen \in Searching!Rankings /\ Searching!Elements(fused) = Searching!Elements(chosen)
        /\ Len(chosen) = Len(fused)
    BY <1>1 DEF SearchInv
  <1>3. /\ rs \in Searching!Rankings
        /\ Len(rs) = IF Len(chosen) < TopK THEN Len(chosen) ELSE TopK
        /\ Mixed(fused, rs)
    BY <1>2, SpreadOK
  <1> HIDE DEF rs
  <1> QED
    BY <1>1, <1>2, <1>3 DEF SearchInv

LEMMA SearchGoesOn == SearchInv /\ [Searching!Next]_(Searching!vars) => SearchInv'
  <1> SUFFICES ASSUME SearchInv, [Searching!Next]_(Searching!vars) PROVE SearchInv'
    OBVIOUS
  <1>1. CASE UNCHANGED Searching!vars
    BY <1>1 DEF SearchInv, Searching!vars
  <1>2. CASE Searching!VectorSearch
    BY <1>2 DEF SearchInv, Searching!VectorSearch, Searching!Goes
  <1>3. CASE Searching!FullTextSearch
    BY <1>3 DEF SearchInv, Searching!FullTextSearch, Searching!Goes
  <1> QED
    BY <1>1, <1>2, <1>3, SearchFuses, SearchBoosts, SearchSpreads DEF Searching!Next

SearchSide == side = "search" => SearchInv

LEMMA SearchSideHolds == AssistantSpec => []SearchSide
  <1>1. AssistantInit => SearchSide
    BY SearchStart DEF AssistantInit, SearchSide
  <1>2. SearchSide /\ [AssistantNext]_assistantVars => SearchSide'
    <2> SUFFICES ASSUME SearchSide, [AssistantNext]_assistantVars, side' = "search" PROVE SearchInv'
      BY DEF SearchSide
    <2>1. side = "search" /\ [Searching!Next]_(Searching!vars)
      BY DEF AssistantNext, assistantVars, searchVars, Searching!vars
    <2> QED
      BY <2>1, SearchGoesOn DEF SearchSide
  <1> QED
    BY <1>1, <1>2, PTL DEF AssistantSpec

LEMMA SearchMeans ==
  ASSUME SearchInv
  PROVE  Searching!TypeOK /\ Searching!FusionAgrees /\ Searching!AnswerIsSpread
  <1>1. Searching!TypeOK
    <2>1. /\ vector \in Searching!Rankings /\ fts \in Searching!Rankings
          /\ fused \in Searching!Rankings /\ chosen \in Searching!Rankings
      BY DEF SearchInv
    <2>2. /\ Searching!IsRanking(vector) /\ Searching!IsRanking(fts)
          /\ Searching!IsRanking(fused) /\ Searching!IsRanking(chosen)
      BY <2>1, RankingIs DEF Searching!IsRanking
    <2> QED
      BY <2>2 DEF SearchInv, Searching!TypeOK
  <1>2. Searching!FusionAgrees
    BY DEF SearchInv, Beats, Searching!FusionAgrees
  <1>3. Searching!AnswerIsSpread
    BY SearchCounts DEF SearchInv, Mixed, Searching!AnswerIsSpread
  <1> QED
    BY <1>1, <1>2, <1>3

-----------------------------------------------------------------------------

(* Slides are made once, and no row is pending that nobody works on unless *)
(* a restart killed its goroutine; an overview that is done has every line *)
(* spoken; a stream of events ends once (Material).  Every block of a      *)
(* document is in one chunk, a chunk without a table passes its target by a *)
(* last heading only or is one block, its breadcrumb names the headings    *)
(* above it, and what it repeats is of the chunk before (buildChunks,      *)
(* SplitIntoChunks).  What both rankings agree on the fused one keeps      *)
(* (ReciprocalRankFusion), and no document has more than its share while   *)
(* another has chunks left (diversifyChunksByDocument).                    *)
THEOREM MaterialIsAlwaysWhole == AssistantSpec => []MaterialIsWhole
  <1>1. MaterialSide /\ CutSide /\ SearchSide => MaterialIsWhole
    BY MadeMeans, BlocksAreKept, ChunksStayNear, SectionsAreNamed, SearchMeans
    DEF MaterialSide, CutSide, SearchSide, MaterialIsWhole
  <1> QED
    BY <1>1, MaterialSideHolds, CutSideHolds, SearchSideHolds, PTL

-----------------------------------------------------------------------------
(* The types of every part.                                                *)

TypesSide ==
    /\ side = "tools" => IInv /\ ToolTypes
    /\ side = "feedback" => Talking!Typing
    /\ side = "providers" => ProviderInv /\ AsksTyped

LEMMA TypesSideHolds == AssistantSpec => []TypesSide
  <1>1. AssistantInit => TypesSide
    <2> SUFFICES ASSUME AssistantInit PROVE TypesSide
      OBVIOUS
    <2>1. side = "tools" => IInv /\ ToolTypes
      BY AssistantAssumption, InitOK, ToolTypesInit DEF AssistantInit
    <2>2. side = "feedback" => Talking!Typing
      BY AssistantAssumption, Talking!TypingInit DEF AssistantInit
    <2>3. side = "providers" => ProviderInv /\ AsksTyped
      BY ProviderStart, AsksTypedInit DEF AssistantInit
    <2> QED
      BY <2>1, <2>2, <2>3 DEF TypesSide
  <1>2. TypesSide /\ [AssistantNext]_assistantVars => TypesSide'
    <2> SUFFICES ASSUME TypesSide, [AssistantNext]_assistantVars PROVE TypesSide'
      OBVIOUS
    <2>1. ASSUME side' = "tools" PROVE IInv' /\ ToolTypes'
      <3>1. side = "tools" /\ [Next]_vars
        BY <2>1 DEF AssistantNext, assistantVars
      <3> QED
        BY <3>1, AssistantAssumption, NextOK, ToolTypesNext DEF TypesSide
    <2>2. ASSUME side' = "feedback" PROVE Talking!Typing'
      <3>1. side = "feedback" /\ [Talking!Next]_(Talking!vars)
        BY <2>2, FeedbackSteps
      <3> QED
        BY <3>1, AssistantAssumption, Talking!TypingNext DEF TypesSide
    <2>3. ASSUME side' = "providers" PROVE ProviderInv' /\ AsksTyped'
      <3>1. side = "providers" /\ [Providing!Next]_(Providing!vars)
        BY <2>3 DEF AssistantNext, assistantVars, providerVars, Providing!vars
      <3> QED
        BY <3>1, ProviderStep, AsksTypedNext DEF TypesSide
    <2> QED
      BY <2>1, <2>2, <2>3 DEF TypesSide
  <1> QED
    BY <1>1, <1>2, PTL DEF AssistantSpec

(* Every part of the assistant keeps its types and bounds: a loop its      *)
(* depth and its calls (Run), the tool of a slip at most one run for each  *)
(* who resolved it, a pool's counter its keys and a loop over them its     *)
(* turns (GetKey), a socket its buffer (hub.go), a row its statuses, and   *)
(* the chunks, the ranks and the files theirs.                             *)
THEOREM AssistantTypeCorrect == AssistantSpec => []Typed
  <1>1. TypesSide /\ SessionSide /\ FilesSide /\ MaterialSide /\ CutSide /\ SearchSide => Typed
    <2> SUFFICES ASSUME TypesSide, SessionSide, FilesSide, MaterialSide, CutSide, SearchSide PROVE Typed
      OBVIOUS
    <2>1. side = "session" => Session!TypeOK
      BY SessionTypesMean DEF SessionSide, SessionInv
    <2>2. side = "tools" => TypeOK
      BY AssistantAssumption, ToolTypesMean DEF TypesSide
    <2>3. side = "providers" => Providing!TypeOK
      BY AsksTypedMean DEF TypesSide
    <2>4. side = "material" => Making!TypeOK
      BY MadeMeans DEF MaterialSide
    <2>5. side = "files" => Files!TypeOK
      BY DEF FilesSide, FilesInv
    <2>6. side = "feedback" => Talking!TypeOK
      BY DEF TypesSide, Talking!Typing
    <2>7. side = "chunks" => Cutting!TypeOK
      BY CutTypes DEF CutSide
    <2>8. side = "search" => Searching!TypeOK
      BY SearchMeans DEF SearchSide
    <2> QED
      BY <2>1, <2>2, <2>3, <2>4, <2>5, <2>6, <2>7, <2>8 DEF Typed
  <1> QED
    BY <1>1, TypesSideHolds, SessionSideHolds, FilesSideHolds, MaterialSideHolds, CutSideHolds,
       SearchSideHolds, PTL

=============================================================================

------------------------------ MODULE SpamCheck ------------------------------
(* What a new comment's first status is (service/comment/spam.go, platform/spam): *)
(* the enabled detectors are asked in a fixed order outside the transaction; the  *)
(* local one matches the keyword file of the moment, which an operator edits      *)
(* while checks read it, with an automaton built from its words.                  *)
EXTENDS Naturals, Sequences, FiniteSets

CONSTANTS
  Checks,        \* comments being checked, each once
  Letters,       \* the runes texts and words are written in
  Texts,         \* what they say
  KeywordFiles,  \* contents of the file, <<first half, second half>>, sets of words
  FirstFiles,    \* contents it may have at the start
  Detectors,     \* detectors enabled, [local, action, akismet, cloud]
  MaxFileEdits   \* bound: edits of the file

ASSUME SpamCheckAssumption ==
  /\ MaxFileEdits \in Nat
  /\ \A content \in KeywordFiles, half \in 1..2 : \A word \in content[half] : word # <<>> /\ word \in Seq(Letters)
  /\ \A text \in Texts : text \in Seq(Letters)
  /\ FirstFiles \subseteq KeywordFiles
  /\ Detectors \subseteq [local : BOOLEAN, action : {"spam", "pending"}, akismet : BOOLEAN,
                      cloud : SUBSET {"aliyun", "tencent"}]

VARIABLES
  wordFile,    \* the file its path names, 0 for none
  files,       \* file -> [signature, words]; the signature (size, time) differs with every edit
  lastGood,    \* the matcher's snapshot, [signature, words]; signature 0 for none
  checking,    \* comment -> its progress
  during       \* comment -> contents the file had since its check began; history
spamVars == <<wordFile, files, lastGood, checking, during>>

(* ---- the automaton: its nodes are the prefixes of the words ---- *)
Nodes(words) == {<<>>} \cup UNION {{SubSeq(w, 1, n) : n \in 1..Len(w)} : w \in words}
Shorter(words, n) == {m \in Nodes(words) : Len(m) < Len(n)}
Edge(words, node, r) == Append(node, r) \in Nodes(words)
(* buildAC: from the parent's failure node along the failures, the first with an  *)
(* edge for the letter; the root's children and those that find none fail to it.  *)
Fail(words) ==
  LET fail[n \in Nodes(words) \ {<<>>}] ==
        LET r == n[Len(n)]
            along[f \in Shorter(words, n)] ==
              IF Edge(words, f, r) THEN Append(f, r) ELSE IF f = <<>> THEN <<>> ELSE along[fail[f]]
        IN IF Len(n) = 1 THEN <<>> ELSE along[fail[SubSeq(n, 1, Len(n) - 1)]]
  IN fail
Terminal(words) ==
  LET end[n \in Nodes(words)] == n # <<>> /\ (n \in words \/ end[Fail(words)[n]]) IN end
(* contains: fall back until the letter fits, and stop at the first word found.   *)
FallBack(words, node, r) ==
  LET back[n \in Nodes(words)] == IF n = <<>> \/ Edge(words, n, r) THEN n ELSE back[Fail(words)[n]] IN back[node]
Contains(words, text) ==
  LET at[i \in 0..Len(text)] ==
        IF i = 0 THEN <<>>
        ELSE LET node == FallBack(words, at[i - 1], text[i]) IN
             IF Edge(words, node, text[i]) THEN Append(node, text[i]) ELSE <<>>
  IN \E i \in 1..Len(text) : Terminal(words)[at[i]]

(* ---- one check ---- *)
AllWords(content) == content[1] \cup content[2]
NoFile == <<{}, {}>>
NotBegun == [pc |-> "waiting"]
SpamInit ==
  /\ wordFile = 1 /\ files \in {<<[signature |-> 1, words |-> c]>> : c \in FirstFiles}
  /\ lastGood = [signature |-> 0, words |-> {}]
  /\ checking = [c \in Checks |-> NotBegun] /\ during = [c \in Checks |-> {}]

AtCheck(c, pc) == checking[c].pc = pc
Move(c, r) == checking' = [checking EXCEPT ![c] = r]
MoveTo(c, pc) == Move(c, [checking[c] EXCEPT !.pc = pc])
KeepFile == UNCHANGED <<wordFile, files, during>>
(* The verdict of the local detector: blocked, passed, or none for an error.      *)
Match(c, words) ==
  Move(c, [checking[c] EXCEPT !.pc = "matched", !.blocked = Contains(words, checking[c].text), !.judged = TRUE])

(* Which detectors are enabled is read once, at the start.                        *)
BeginCheck(c, text, p) ==
  /\ AtCheck(c, "waiting")
  /\ Move(c, [pc |-> IF p.local THEN "stat" ELSE "akismet", text |-> text, enabled |-> p, blocked |-> FALSE, judged |-> FALSE,
              before |-> 0, file |-> 0, half |-> {}, status |-> "none"])
  /\ during' = [during EXCEPT ![c] = {IF wordFile = 0 THEN NoFile ELSE files[wordFile].words}]
  /\ UNCHANGED <<wordFile, files, lastGood>>
(* One enabled provider whose row or secret cannot be read, and none is asked.      *)
DetectorsUnreadable(c, text) ==
  /\ AtCheck(c, "waiting")
  /\ Move(c, [pc |-> "end", text |-> text, blocked |-> FALSE, judged |-> FALSE, status |-> "none"])
  /\ during' = [during EXCEPT ![c] = {IF wordFile = 0 THEN NoFile ELSE files[wordFile].words}]
  /\ UNCHANGED <<wordFile, files, lastGood>>
(* reloadIfChanged: a file that cannot be read leaves the last good list in use.  *)
KeepLastGood(c) ==
  IF lastGood.signature # 0 THEN Move(c, [checking[c] EXCEPT !.pc = "stale"]) ELSE MoveTo(c, "akismet")
Stat(c) ==
  /\ AtCheck(c, "stat")
  /\ IF wordFile = 0 THEN KeepLastGood(c)
     ELSE IF lastGood.signature = files[wordFile].signature THEN Match(c, lastGood.words)
     ELSE Move(c, [checking[c] EXCEPT !.pc = "first", !.before = files[wordFile].signature])
  /\ KeepFile /\ UNCHANGED lastGood
(* loadKeywordFile: the file is opened and read in pieces; its size and time after *)
(* that must be those found before. A file that is replaced stays open as it was.  *)
ReadHalf(c) ==
  /\ AtCheck(c, "first")
  /\ IF wordFile = 0 THEN KeepLastGood(c)
     ELSE Move(c, [checking[c] EXCEPT !.pc = "second", !.file = wordFile, !.half = files[wordFile].words[1]])
  /\ KeepFile /\ UNCHANGED lastGood
ReadRest(c) ==
  /\ AtCheck(c, "second") /\ Move(c, [checking[c] EXCEPT !.pc = "verify", !.half = @ \cup files[checking[c].file].words[2]])
  /\ KeepFile /\ UNCHANGED lastGood
UnchangedAnyway(c) == TRUE
UnchangedSince(c) == files[checking[c].file].signature = checking[c].before
Verify(c) ==
  /\ AtCheck(c, "verify")
  /\ IF UnchangedSince(c)
     THEN lastGood' = [signature |-> checking[c].before, words |-> checking[c].half] /\ Match(c, checking[c].half)
     ELSE KeepLastGood(c) /\ UNCHANGED lastGood
  /\ KeepFile
MatchLastGood(c) ==
  /\ AtCheck(c, "stale") /\ Move(c, [checking[c] EXCEPT !.pc = "matched", !.blocked = Contains(lastGood.words, checking[c].text)])
  /\ KeepFile /\ UNCHANGED lastGood

(* ---- the chain: the first detector to object decides; one that fails is passed over ---- *)
Decide(c, status) == Move(c, [checking[c] EXCEPT !.pc = "decided", !.status = status])
LocalAnswers(c) ==
  /\ AtCheck(c, "matched")
  /\ IF checking[c].blocked THEN Decide(c, checking[c].enabled.action) ELSE MoveTo(c, "akismet")
  /\ KeepFile /\ UNCHANGED lastGood
AkismetAnswers(c) ==
  /\ AtCheck(c, "akismet")
  /\ \/ checking[c].enabled.akismet /\ Decide(c, checking[c].enabled.action)
     \/ MoveTo(c, "aliyun")
  /\ KeepFile /\ UNCHANGED lastGood
CloudAnswers(c, who, next) ==
  /\ AtCheck(c, who)
  /\ \/ who \in checking[c].enabled.cloud /\ \E status \in {"pending", "spam"} : Decide(c, status)
     \/ MoveTo(c, next)
  /\ KeepFile /\ UNCHANGED lastGood
(* Nobody objected: the moderation policy decides.                                 *)
NobodyObjected(c) ==
  /\ AtCheck(c, "end") /\ \E status \in {"pending", "published"} : Decide(c, status)
  /\ KeepFile /\ UNCHANGED lastGood

(* The operator writes the file in place, puts another in its place or removes it. *)
Edited(signature, content) == [signature |-> signature, words |-> content]
Signatures == {files[f].signature : f \in DOMAIN files}
EditFile(content) ==
  LET last == CHOOSE n \in Signatures : \A m \in Signatures : m <= n
      new == Edited(last + 1, content) IN
  /\ last <= MaxFileEdits
  /\ \/ wordFile # 0 /\ files' = [files EXCEPT ![wordFile] = new] /\ UNCHANGED wordFile
     \/ files' = Append(files, new) /\ wordFile' = Len(files) + 1
  /\ during' = [c \in Checks |-> IF AtCheck(c, "waiting") THEN {} ELSE during[c] \cup {content}]
  /\ UNCHANGED <<lastGood, checking>>
RemoveFile == wordFile # 0 /\ wordFile' = 0 /\ UNCHANGED <<files, lastGood, checking, during>>

SpamNext ==
  \/ \E c \in Checks :
       \/ \E text \in Texts, p \in Detectors : BeginCheck(c, text, p)
       \/ \E text \in Texts : DetectorsUnreadable(c, text)
       \/ Stat(c) \/ ReadHalf(c) \/ ReadRest(c) \/ Verify(c) \/ MatchLastGood(c)
       \/ LocalAnswers(c) \/ AkismetAnswers(c)
       \/ CloudAnswers(c, "aliyun", "tencent") \/ CloudAnswers(c, "tencent", "end") \/ NobodyObjected(c)
  \/ \E content \in KeywordFiles : EditFile(content)
  \/ RemoveFile
SpamSpec == SpamInit /\ [][SpamNext]_spamVars

------------------------------------------------------------------------------
Occurs(word, text) == \E i \in 1..Len(text) : i + Len(word) - 1 <= Len(text) /\ SubSeq(text, i, i + Len(word) - 1) = word
Holds(words, text) == \E word \in words : Occurs(word, text)

(* What the automaton is meant to compute, for every list and text of the instance: *)
(* contains() reports that some word of the list occurs in the text.                *)
MatcherCorrect ==
  \A content \in KeywordFiles, text \in Texts :
    Contains(AllWords(content), text) = Holds(AllWords(content), text)

(* A comment the local detector judged by a list it loaded was judged by what the  *)
(* file said at some moment of the check, never by half of one list and half of    *)
(* another, and found wanting exactly when a word of it occurs in the text; what   *)
(* it found is never published.                                                    *)
KeywordsHonoured ==
  \A c \in Checks : ~AtCheck(c, "waiting") =>
    /\ checking[c].judged => \E content \in during[c] :
         checking[c].blocked = Holds(AllWords(content), checking[c].text)
    /\ checking[c].blocked => checking[c].status # "published"
=============================================================================

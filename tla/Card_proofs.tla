---------------------------- MODULE Card_proofs ----------------------------
(* Proofs about Card, for any files, tables, sizes and number of resets.   *)
EXTENDS Card, TLAPS

(* The calls of a script are calls.                                        *)
LEMMA ScriptType ==
  ASSUME NEW fn \in {"download", "create"}, NEW files \in Seq(Names)
  PROVE  Script(fn, files) \in Seq(Calls)
<1>1. \A i \in 1..Len(files) : [fn |-> fn, file |-> files[i]] \in Calls
  BY DEF Calls
<1>2. DOMAIN files = 1..Len(files) /\ Len(files) \in Nat
  OBVIOUS
<1>3. QED
  BY <1>1, <1>2 DEF Script

LEMMA NamesType == JsonFiles \in Seq(Names) /\ Tables \in Seq(Names)
<1>1. \A i \in DOMAIN JsonFiles : JsonFiles[i] \in Names
  BY DEF Names, Downloads
<1>2. \A i \in DOMAIN Tables : Tables[i] \in Names
  BY DEF Names, TableNames
<1>3. QED
  BY <1>1, <1>2, NamesAssumption

(* What a step of the call that is first does to the calls to make.        *)
LEMMA TodoSteps ==
  ASSUME todo \in Seq(Calls), todo # <<>>
  PROVE  /\ Head(todo) \in Calls /\ file \in Names
         /\ Tail(todo) \in Seq(Calls)
<1>1. Head(todo) \in Calls /\ Tail(todo) \in Seq(Calls)
  OBVIOUS
<1>2. QED
  BY <1>1 DEF file, Calls

LEMMA StartType ==
  ASSUME todo \in Seq(Calls), Caller
  PROVE  todo' \in Seq(Calls)
<1>1. CASE download_json_table
  BY <1>1, ScriptType, NamesType DEF download_json_table, Start
<1>2. CASE Crea_csv_table
  BY <1>2, ScriptType, NamesType DEF Crea_csv_table, Start
<1>3. CASE CallOne
  BY <1>3 DEF CallOne, Start
<1>4. QED
  BY <1>1, <1>2, <1>3 DEF Caller

(* Init makes IInv true.                                                   *)
LEMMA InitIInv == Init => IInv
<1> SUFFICES ASSUME Init PROVE IInv
  OBVIOUS
<1> USE ChunksAssumption, BoundsAssumption DEF Init
<1>1. TypeOK
  <2>1. <<>> \in Seq(Calls) /\ 0 \in 0..MaxFiles /\ 0 \in 0..Chunks
    OBVIOUS
  <2>2. card \in [Names -> Contents]
    BY DEF Contents
  <2>3. QED
    BY <2>1, <2>2 DEF TypeOK, Steps
<1>2. CallUnderWay /\ DamagedWasHit /\ LostIsHit /\ ShortIsHit
  BY DEF CallUnderWay, DamagedWasHit, LostIsHit, ShortIsHit
<1>3. HandlesAccounted
  BY DEF HandlesAccounted, OwnFile, HttpSteps
<1>4. QED
  BY <1>1, <1>2, <1>3 DEF IInv

(* A call that is under way leaves the other files alone.                  *)
LEMMA OnlyItsFile ==
  ASSUME IInv, todo # <<>>,
         \A f \in Names : f # file => /\ card'[f] = card[f]
                                     /\ (f \in hit => f \in hit'),
         \/ card'[file] = "whole" \/ file \in hit'
         \/ todo' = todo /\ pc' \in Replacement
  PROVE  DamagedWasHit'
<1> SUFFICES ASSUME NEW f \in Names
             PROVE  card'[f] = "whole" \/ f \in hit' \/ Replacing(f)'
  BY DEF DamagedWasHit
<1>1. CASE f = file
  <2>1. todo' = todo => file' = file
    BY DEF file
  <2>2. QED
    BY <1>1, <2>1 DEF Replacing
<1>2. CASE f # file
  <2>1. card[f] = "whole" \/ f \in hit
    BY <1>2 DEF IInv, DamagedWasHit, Replacing
  <2>2. QED
    BY <1>2, <2>1
<1>3. QED
  BY <1>1, <1>2

(* A step of download_file_to_emmc.                                        *)
LEMMA DownloadKeepsIInv == IInv /\ Download => IInv'
<1> SUFFICES ASSUME IInv, Download PROVE IInv'
  OBVIOUS
<1>t. todo # <<>> => /\ Head(todo) \in Calls /\ file \in Names
                     /\ Tail(todo) \in Seq(Calls)
  BY TodoSteps DEF IInv, TypeOK
<1>i. /\ TypeOK /\ CallUnderWay /\ DamagedWasHit /\ LostIsHit /\ ShortIsHit
      /\ HandlesAccounted
  BY DEF IInv
<1> USE DEF Return, Calling, bodyVars, counters, historyVars
<1>1. CASE DownloadOpen
  BY <1>1, <1>t, ChunksAssumption, BoundsAssumption
  DEF DownloadOpen, IInv, TypeOK, CallUnderWay, DamagedWasHit, LostIsHit, ShortIsHit,
      HandlesAccounted, Contents, Steps, OwnFile, HttpSteps, Replacing,
      Replacement
<1>2. CASE DownloadHeaders
  <2>0. todo # <<>>
    BY <1>2, <1>i DEF DownloadHeaders, CallUnderWay
  <2>b. lost' \in BOOLEAN /\ page' \in BOOLEAN
    BY <1>2, <1>i, Zenon DEF DownloadHeaders, TypeOK
  <2>1. TypeOK'
    BY <2>b, <1>2, <1>i, <1>t, <2>0, ChunksAssumption, BoundsAssumption
    DEF DownloadHeaders, TypeOK, Contents, Steps, OwnFile, HttpSteps,
        HandlesAccounted
  <2>2. CallUnderWay'
    BY <1>2, <2>0 DEF DownloadHeaders, CallUnderWay
  <2>3. HandlesAccounted'
    BY <1>2, <1>i DEF DownloadHeaders, TypeOK, OwnFile, HttpSteps, HandlesAccounted
  <2>4. /\ \A f \in Names : f # file => card'[f] = card[f]
        /\ \A f \in Names : f # file /\ f \in hit => f \in hit'
    BY <1>2, <1>i, <1>t, <2>0 DEF DownloadHeaders, TypeOK
  <2>5. \/ card'[file] = "whole" \/ file \in hit'
        \/ todo' = todo /\ pc' \in Replacement
    BY <1>2, <1>i, <1>t, <2>0, ChunksAssumption
    DEF DownloadHeaders, TypeOK, DamagedWasHit, LostIsHit, ShortIsHit, Replacing, Replacement
  <2>6. DamagedWasHit'
    BY <2>0, <2>4, <2>5, OnlyItsFile
  <2>7. LostIsHit' /\ ShortIsHit'
    BY <1>2, <1>i, <1>t, <2>0 DEF DownloadHeaders, TypeOK, LostIsHit, ShortIsHit, file
  <2>8. QED
    BY <2>1, <2>2, <2>3, <2>6, <2>7 DEF IInv
<1>3. CASE DownloadRemove
  <2>0. todo # <<>>
    BY <1>3, <1>i DEF DownloadRemove, CallUnderWay
  <2>b. lost' \in BOOLEAN /\ page' \in BOOLEAN
    BY <1>3, <1>i, Zenon DEF DownloadRemove, TypeOK
  <2>1. TypeOK'
    BY <2>b, <1>3, <1>i, <1>t, <2>0, ChunksAssumption, BoundsAssumption
    DEF DownloadRemove, TypeOK, Contents, Steps, OwnFile, HttpSteps,
        HandlesAccounted
  <2>2. CallUnderWay'
    BY <1>3, <2>0 DEF DownloadRemove, CallUnderWay
  <2>3. HandlesAccounted'
    BY <1>3, <1>i DEF DownloadRemove, TypeOK, OwnFile, HttpSteps, HandlesAccounted
  <2>4. /\ \A f \in Names : f # file => card'[f] = card[f]
        /\ \A f \in Names : f # file /\ f \in hit => f \in hit'
    BY <1>3, <1>i, <1>t, <2>0 DEF DownloadRemove, TypeOK
  <2>5. \/ card'[file] = "whole" \/ file \in hit'
        \/ todo' = todo /\ pc' \in Replacement
    BY <1>3, <1>i, <1>t, <2>0, ChunksAssumption
    DEF DownloadRemove, TypeOK, DamagedWasHit, LostIsHit, ShortIsHit, Replacing, Replacement
  <2>6. DamagedWasHit'
    BY <2>0, <2>4, <2>5, OnlyItsFile
  <2>7. LostIsHit' /\ ShortIsHit'
    BY <1>3, <1>i, <1>t, <2>0 DEF DownloadRemove, TypeOK, LostIsHit, ShortIsHit, file
  <2>8. QED
    BY <2>1, <2>2, <2>3, <2>6, <2>7 DEF IInv
<1>4. CASE DownloadFopen
  <2>0. todo # <<>>
    BY <1>4, <1>i DEF DownloadFopen, CallUnderWay
  <2>b. lost' \in BOOLEAN /\ page' \in BOOLEAN
    BY <1>4, <1>i, Zenon DEF DownloadFopen, TypeOK
  <2>1. TypeOK'
    <3>1. open' \in 0..MaxFiles /\ got' \in 0..Chunks
      BY <1>4, <1>i, ChunksAssumption, BoundsAssumption
      DEF DownloadFopen, Free, TypeOK
    <3>2. pc' \in Steps
      BY <1>4 DEF DownloadFopen, Steps, OwnFile, HttpSteps
    <3>3. card' \in [Names -> Contents] /\ todo' \in Seq(Calls) /\ hit' \subseteq Names
      BY <1>4, <1>i, <1>t, <2>0 DEF DownloadFopen, TypeOK, Contents
    <3>4. client' \in {"none", "init", "open"} /\ UNCHANGED <<row_no, DBErrorCounter, leaked>>
      BY <1>4, <1>i DEF DownloadFopen, TypeOK
    <3>5. QED
      BY <2>b, <1>i, <3>1, <3>2, <3>3, <3>4 DEF TypeOK
  <2>2. CallUnderWay'
    BY <1>4, <2>0 DEF DownloadFopen, CallUnderWay
  <2>3. HandlesAccounted'
    BY <1>4, <1>i DEF DownloadFopen, TypeOK, OwnFile, HttpSteps, HandlesAccounted
  <2>4. /\ \A f \in Names : f # file => card'[f] = card[f]
        /\ \A f \in Names : f # file /\ f \in hit => f \in hit'
    BY <1>4, <1>i, <1>t, <2>0 DEF DownloadFopen, TypeOK
  <2>5. \/ card'[file] = "whole" \/ file \in hit'
        \/ todo' = todo /\ pc' \in Replacement
    BY <1>4, <1>i, <1>t, <2>0, ChunksAssumption
    DEF DownloadFopen, Free, TypeOK, DamagedWasHit, LostIsHit, ShortIsHit, Replacing, Replacement
  <2>6. DamagedWasHit'
    BY <2>0, <2>4, <2>5, OnlyItsFile
  <2>7. LostIsHit' /\ ShortIsHit'
    BY <1>4, <1>i, <1>t, <2>0 DEF DownloadFopen, TypeOK, LostIsHit, ShortIsHit, file
  <2>8. QED
    BY <2>1, <2>2, <2>3, <2>6, <2>7 DEF IInv
<1>5. CASE DownloadRead
  <2>0. todo # <<>>
    BY <1>5, <1>i DEF DownloadRead, CallUnderWay
  <2>b. lost' \in BOOLEAN /\ page' \in BOOLEAN
    BY <1>5, <1>i, Zenon DEF DownloadRead, TypeOK
  <2>1. TypeOK'
    BY <2>b, <1>5, <1>i, <1>t, <2>0, ChunksAssumption, BoundsAssumption
    DEF DownloadRead, TypeOK, Contents, Steps, OwnFile, HttpSteps,
        HandlesAccounted
  <2>2. CallUnderWay'
    BY <1>5, <2>0 DEF DownloadRead, CallUnderWay
  <2>3. HandlesAccounted'
    BY <1>5, <1>i DEF DownloadRead, TypeOK, OwnFile, HttpSteps, HandlesAccounted
  <2>4. /\ \A f \in Names : f # file => card'[f] = card[f]
        /\ \A f \in Names : f # file /\ f \in hit => f \in hit'
    BY <1>5, <1>i, <1>t, <2>0 DEF DownloadRead, TypeOK
  <2>5. \/ card'[file] = "whole" \/ file \in hit'
        \/ todo' = todo /\ pc' \in Replacement
    BY <1>5, <1>i, <1>t, <2>0, ChunksAssumption
    DEF DownloadRead, TypeOK, DamagedWasHit, LostIsHit, ShortIsHit, Replacing, Replacement
  <2>6. DamagedWasHit'
    BY <2>0, <2>4, <2>5, OnlyItsFile
  <2>7. LostIsHit' /\ ShortIsHit'
    BY <1>5, <1>i, <1>t, <2>0 DEF DownloadRead, TypeOK, LostIsHit, ShortIsHit, file
  <2>8. QED
    BY <2>1, <2>2, <2>3, <2>6, <2>7 DEF IInv
<1>6. CASE DownloadFclose
  <2>0. todo # <<>>
    BY <1>6, <1>i DEF DownloadFclose, CallUnderWay
  <2>b. lost' \in BOOLEAN /\ page' \in BOOLEAN
    BY <1>6, <1>i, Zenon DEF DownloadFclose, TypeOK
  <2>1. TypeOK'
    BY <2>b, <1>6, <1>i, <1>t, <2>0, ChunksAssumption, BoundsAssumption
    DEF DownloadFclose, Saved, TypeOK, Contents, Steps, OwnFile, HttpSteps,
        HandlesAccounted
  <2>2. CallUnderWay'
    BY <1>6, <2>0 DEF DownloadFclose, CallUnderWay
  <2>3. HandlesAccounted'
    BY <1>6, <1>i DEF DownloadFclose, TypeOK, OwnFile, HttpSteps, HandlesAccounted
  <2>4. /\ \A f \in Names : f # file => card'[f] = card[f]
        /\ \A f \in Names : f # file /\ f \in hit => f \in hit'
    BY <1>6, <1>i, <1>t, <2>0 DEF DownloadFclose, TypeOK
  <2>5. \/ card'[file] = "whole" \/ file \in hit'
        \/ todo' = todo /\ pc' \in Replacement
    BY <1>6, <1>i, <1>t, <2>0, ChunksAssumption
    DEF DownloadFclose, Saved, TypeOK, DamagedWasHit, LostIsHit, ShortIsHit, Replacing, Replacement
  <2>6. DamagedWasHit'
    BY <2>0, <2>4, <2>5, OnlyItsFile
  <2>7. LostIsHit' /\ ShortIsHit'
    BY <1>6, <1>i, <1>t, <2>0 DEF DownloadFclose, TypeOK, LostIsHit, ShortIsHit, file
  <2>8. QED
    BY <2>1, <2>2, <2>3, <2>6, <2>7 DEF IInv
<1>7. QED
  BY <1>1, <1>2, <1>3, <1>4, <1>5, <1>6 DEF Download

(* A step of an upload or of a request.                                    *)
LEMMA UploadKeepsIInv == IInv /\ Upload => IInv'
<1> SUFFICES ASSUME IInv, Upload PROVE IInv'
  OBVIOUS
<1>t. todo # <<>> => /\ Head(todo) \in Calls /\ file \in Names
                     /\ Tail(todo) \in Seq(Calls)
  BY TodoSteps DEF IInv, TypeOK
<1>i. /\ TypeOK /\ CallUnderWay /\ DamagedWasHit /\ LostIsHit /\ ShortIsHit
      /\ HandlesAccounted
  BY DEF IInv
<1> USE DEF Return, Calling, bodyVars, counters, historyVars
<1>1. CASE UploadFopen
  <2>1. TypeOK'
    <3>1. open' \in 0..MaxFiles /\ pc' \in Steps
      BY <1>1, <1>i, BoundsAssumption
      DEF UploadFopen, Free, TypeOK, Steps, OwnFile, HttpSteps
    <3>2. todo' \in Seq(Calls) /\ client' \in {"none", "init", "open"}
      BY <1>1, <1>i, <1>t DEF UploadFopen, TypeOK
    <3>3. QED
      BY <1>1, <1>i, <3>1, <3>2 DEF UploadFopen, TypeOK
  <2>2. HandlesAccounted'
    BY <1>1, <1>i DEF UploadFopen, TypeOK, OwnFile, HttpSteps, HandlesAccounted
  <2>3. CallUnderWay' /\ DamagedWasHit' /\ LostIsHit' /\ ShortIsHit'
    BY <1>1, <1>i
    DEF UploadFopen, CallUnderWay, DamagedWasHit, LostIsHit, ShortIsHit, Replacing,
        Replacement
  <2>4. QED
    BY <2>1, <2>2, <2>3 DEF IInv
<1>2. CASE UploadOpen
  BY <1>2, <1>t, ChunksAssumption, BoundsAssumption
  DEF UploadOpen, IInv, TypeOK, CallUnderWay, DamagedWasHit, LostIsHit, ShortIsHit,
      HandlesAccounted, Contents, Steps, OwnFile, HttpSteps, Replacing,
      Replacement
<1>3. CASE UploadBody
  BY <1>3, <1>t, ChunksAssumption, BoundsAssumption
  DEF UploadBody, IInv, TypeOK, CallUnderWay, DamagedWasHit, LostIsHit, ShortIsHit,
      HandlesAccounted, Contents, Steps, OwnFile, HttpSteps, Replacing,
      Replacement
<1>4. CASE UploadAnswer
  BY <1>4, <1>t, ChunksAssumption, BoundsAssumption
  DEF UploadAnswer, IInv, TypeOK, CallUnderWay, DamagedWasHit, LostIsHit, ShortIsHit,
      HandlesAccounted, Contents, Steps, OwnFile, HttpSteps, Replacing,
      Replacement
<1>5. CASE Request
  BY <1>5, <1>t, ChunksAssumption, BoundsAssumption
  DEF Request, IInv, TypeOK, CallUnderWay, DamagedWasHit, LostIsHit, ShortIsHit,
      HandlesAccounted, Contents, Steps, OwnFile, HttpSteps, Replacing,
      Replacement
<1>6. CASE RequestPerform
  BY <1>6, <1>t, ChunksAssumption, BoundsAssumption
  DEF RequestPerform, IInv, TypeOK, CallUnderWay, DamagedWasHit, LostIsHit, ShortIsHit,
      HandlesAccounted, Contents, Steps, OwnFile, HttpSteps, Replacing,
      Replacement
<1>7. CASE PostAgain
  BY <1>7, <1>t, ChunksAssumption, BoundsAssumption
  DEF PostAgain, IInv, TypeOK, CallUnderWay, DamagedWasHit, LostIsHit, ShortIsHit,
      HandlesAccounted, Contents, Steps, OwnFile, HttpSteps, Replacing,
      Replacement
<1>8. QED
  BY <1>1, <1>2, <1>3, <1>4, <1>5, <1>6, <1>7 DEF Upload

(* The server answers.                                                     *)
LEMMA AnsweredKeepsIInv == IInv /\ Answered => IInv'
<1> SUFFICES ASSUME IInv, Answered PROVE IInv'
  OBVIOUS
<1> USE DEF bodyVars, counters, historyVars
<1>1. TypeOK'
  BY DEF Answered, IInv, TypeOK, Steps, HttpSteps
<1>2. CallUnderWay' /\ DamagedWasHit' /\ LostIsHit' /\ ShortIsHit'
  BY DEF Answered, IInv, CallUnderWay, DamagedWasHit, LostIsHit, ShortIsHit,
         Replacing, Replacement, file
<1>3. HandlesAccounted'
  BY DEF Answered, IInv, HandlesAccounted, OwnFile, HttpSteps
<1>4. QED
  BY <1>1, <1>2, <1>3 DEF IInv

(* A step of a function of emmc.c.                                         *)
LEMMA TableKeepsIInv == IInv /\ Table => IInv'
<1> SUFFICES ASSUME IInv, Table PROVE IInv'
  OBVIOUS
<1>t. todo # <<>> => /\ Head(todo) \in Calls /\ file \in Names
                     /\ Tail(todo) \in Seq(Calls)
  BY TodoSteps DEF IInv, TypeOK
<1>i. /\ TypeOK /\ CallUnderWay /\ DamagedWasHit /\ LostIsHit /\ ShortIsHit
      /\ HandlesAccounted
  BY DEF IInv
<1> USE DEF Return, Calling, bodyVars, counters, historyVars
<1>1. CASE CreateRemove
  <2>0. todo # <<>>
    BY <1>1, <1>i DEF CreateRemove, CallUnderWay
  <2>b. lost' \in BOOLEAN /\ page' \in BOOLEAN
    BY <1>1, <1>i, Zenon DEF CreateRemove, TypeOK
  <2>1. TypeOK'
    BY <2>b, <1>1, <1>i, <1>t, <2>0, ChunksAssumption, BoundsAssumption
    DEF CreateRemove, TypeOK, Contents, Steps, OwnFile, HttpSteps,
        HandlesAccounted
  <2>2. CallUnderWay'
    BY <1>1, <2>0 DEF CreateRemove, CallUnderWay
  <2>3. HandlesAccounted'
    BY <1>1, <1>i DEF CreateRemove, TypeOK, OwnFile, HttpSteps, HandlesAccounted
  <2>4. /\ \A f \in Names : f # file => card'[f] = card[f]
        /\ \A f \in Names : f # file /\ f \in hit => f \in hit'
    BY <1>1, <1>i, <1>t, <2>0 DEF CreateRemove, TypeOK
  <2>5. \/ card'[file] = "whole" \/ file \in hit'
        \/ todo' = todo /\ pc' \in Replacement
    BY <1>1, <1>i, <1>t, <2>0, ChunksAssumption
    DEF CreateRemove, TypeOK, DamagedWasHit, LostIsHit, ShortIsHit, Replacing, Replacement
  <2>6. DamagedWasHit'
    BY <2>0, <2>4, <2>5, OnlyItsFile
  <2>7. LostIsHit' /\ ShortIsHit'
    BY <1>1, <1>i, <1>t, <2>0 DEF CreateRemove, TypeOK, LostIsHit, ShortIsHit, file
  <2>8. QED
    BY <2>1, <2>2, <2>3, <2>6, <2>7 DEF IInv
<1>2. CASE CreateFopen
  <2>0. todo # <<>>
    BY <1>2, <1>i DEF CreateFopen, CallUnderWay
  <2>b. lost' \in BOOLEAN /\ page' \in BOOLEAN
    BY <1>2, <1>i, Zenon DEF CreateFopen, TypeOK
  <2>1. TypeOK'
    BY <2>b, <1>2, <1>i, <1>t, <2>0, ChunksAssumption, BoundsAssumption
    DEF CreateFopen, Free, TypeOK, Contents, Steps, OwnFile, HttpSteps,
        HandlesAccounted
  <2>2. CallUnderWay'
    BY <1>2, <2>0 DEF CreateFopen, CallUnderWay
  <2>3. HandlesAccounted'
    BY <1>2, <1>i DEF CreateFopen, TypeOK, OwnFile, HttpSteps, HandlesAccounted
  <2>4. /\ \A f \in Names : f # file => card'[f] = card[f]
        /\ \A f \in Names : f # file /\ f \in hit => f \in hit'
    BY <1>2, <1>i, <1>t, <2>0 DEF CreateFopen, TypeOK
  <2>5. \/ card'[file] = "whole" \/ file \in hit'
        \/ todo' = todo /\ pc' \in Replacement
    BY <1>2, <1>i, <1>t, <2>0, ChunksAssumption
    DEF CreateFopen, Free, TypeOK, DamagedWasHit, LostIsHit, ShortIsHit, Replacing, Replacement
  <2>6. DamagedWasHit'
    BY <2>0, <2>4, <2>5, OnlyItsFile
  <2>7. LostIsHit' /\ ShortIsHit'
    BY <1>2, <1>i, <1>t, <2>0 DEF CreateFopen, TypeOK, LostIsHit, ShortIsHit, file
  <2>8. QED
    BY <2>1, <2>2, <2>3, <2>6, <2>7 DEF IInv
<1>3. CASE CreateHeader
  <2>0. todo # <<>>
    BY <1>3, <1>i DEF CreateHeader, CallUnderWay
  <2>b. lost' \in BOOLEAN /\ page' \in BOOLEAN
    BY <1>3, <1>i, Zenon DEF CreateHeader, TypeOK
  <2>1. TypeOK'
    BY <2>b, <1>3, <1>i, <1>t, <2>0, ChunksAssumption, BoundsAssumption
    DEF CreateHeader, TypeOK, Contents, Steps, OwnFile, HttpSteps,
        HandlesAccounted
  <2>2. CallUnderWay'
    BY <1>3, <2>0 DEF CreateHeader, CallUnderWay
  <2>3. HandlesAccounted'
    BY <1>3, <1>i DEF CreateHeader, TypeOK, OwnFile, HttpSteps, HandlesAccounted
  <2>4. /\ \A f \in Names : f # file => card'[f] = card[f]
        /\ \A f \in Names : f # file /\ f \in hit => f \in hit'
    BY <1>3, <1>i, <1>t, <2>0 DEF CreateHeader, TypeOK
  <2>5. \/ card'[file] = "whole" \/ file \in hit'
        \/ todo' = todo /\ pc' \in Replacement
    BY <1>3, <1>i, <1>t, <2>0, ChunksAssumption
    DEF CreateHeader, TypeOK, DamagedWasHit, LostIsHit, ShortIsHit, Replacing, Replacement
  <2>6. DamagedWasHit'
    BY <2>0, <2>4, <2>5, OnlyItsFile
  <2>7. LostIsHit' /\ ShortIsHit'
    BY <1>3, <1>i, <1>t, <2>0 DEF CreateHeader, TypeOK, LostIsHit, ShortIsHit, file
  <2>8. QED
    BY <2>1, <2>2, <2>3, <2>6, <2>7 DEF IInv
<1>4. CASE AppendFopen
  <2>0. todo # <<>>
    BY <1>4, <1>i DEF AppendFopen, CallUnderWay
  <2>b. lost' \in BOOLEAN /\ page' \in BOOLEAN
    BY <1>4, <1>i, Zenon DEF AppendFopen, TypeOK
  <2>1. TypeOK'
    BY <2>b, <1>4, <1>i, <1>t, <2>0, ChunksAssumption, BoundsAssumption
    DEF AppendFopen, Free, TypeOK, Contents, Steps, OwnFile, HttpSteps,
        HandlesAccounted
  <2>2. CallUnderWay'
    BY <1>4, <2>0 DEF AppendFopen, CallUnderWay
  <2>3. HandlesAccounted'
    BY <1>4, <1>i DEF AppendFopen, TypeOK, OwnFile, HttpSteps, HandlesAccounted
  <2>4. /\ \A f \in Names : f # file => card'[f] = card[f]
        /\ \A f \in Names : f # file /\ f \in hit => f \in hit'
    BY <1>4, <1>i, <1>t, <2>0 DEF AppendFopen, TypeOK
  <2>5. \/ card'[file] = "whole" \/ file \in hit'
        \/ todo' = todo /\ pc' \in Replacement
    BY <1>4, <1>i, <1>t, <2>0, ChunksAssumption
    DEF AppendFopen, Free, TypeOK, DamagedWasHit, LostIsHit, ShortIsHit, Replacing, Replacement
  <2>6. DamagedWasHit'
    BY <2>0, <2>4, <2>5, OnlyItsFile
  <2>7. LostIsHit' /\ ShortIsHit'
    BY <1>4, <1>i, <1>t, <2>0 DEF AppendFopen, TypeOK, LostIsHit, ShortIsHit, file
  <2>8. QED
    BY <2>1, <2>2, <2>3, <2>6, <2>7 DEF IInv
<1>5. CASE AppendRow
  <2>0. todo # <<>>
    BY <1>5, <1>i DEF AppendRow, CallUnderWay
  <2>b. lost' \in BOOLEAN /\ page' \in BOOLEAN
    BY <1>5, <1>i, Zenon DEF AppendRow, TypeOK
  <2>1. TypeOK'
    BY <2>b, <1>5, <1>i, <1>t, <2>0, ChunksAssumption, BoundsAssumption
    DEF AppendRow, TypeOK, Contents, Steps, OwnFile, HttpSteps,
        HandlesAccounted
  <2>2. CallUnderWay'
    BY <1>5, <2>0 DEF AppendRow, CallUnderWay
  <2>3. HandlesAccounted'
    BY <1>5, <1>i DEF AppendRow, TypeOK, OwnFile, HttpSteps, HandlesAccounted
  <2>4. /\ \A f \in Names : f # file => card'[f] = card[f]
        /\ \A f \in Names : f # file /\ f \in hit => f \in hit'
    BY <1>5, <1>i, <1>t, <2>0 DEF AppendRow, TypeOK
  <2>5. \/ card'[file] = "whole" \/ file \in hit'
        \/ todo' = todo /\ pc' \in Replacement
    BY <1>5, <1>i, <1>t, <2>0, ChunksAssumption
    DEF AppendRow, TypeOK, DamagedWasHit, LostIsHit, ShortIsHit, Replacing, Replacement
  <2>6. DamagedWasHit'
    BY <2>0, <2>4, <2>5, OnlyItsFile
  <2>7. LostIsHit' /\ ShortIsHit'
    BY <1>5, <1>i, <1>t, <2>0 DEF AppendRow, TypeOK, LostIsHit, ShortIsHit, file
  <2>8. QED
    BY <2>1, <2>2, <2>3, <2>6, <2>7 DEF IInv
<1>6. CASE AppendNothing
  <2>0. todo # <<>>
    BY <1>6, <1>i DEF AppendNothing, CallUnderWay
  <2>b. lost' \in BOOLEAN /\ page' \in BOOLEAN
    BY <1>6, <1>i, Zenon DEF AppendNothing, TypeOK
  <2>1. TypeOK'
    BY <2>b, <1>6, <1>i, <1>t, <2>0, ChunksAssumption, BoundsAssumption
    DEF AppendNothing, TypeOK, Contents, Steps, OwnFile, HttpSteps,
        HandlesAccounted
  <2>2. CallUnderWay'
    BY <1>6, <2>0 DEF AppendNothing, CallUnderWay
  <2>3. HandlesAccounted'
    BY <1>6, <1>i DEF AppendNothing, TypeOK, OwnFile, HttpSteps, HandlesAccounted
  <2>4. /\ \A f \in Names : f # file => card'[f] = card[f]
        /\ \A f \in Names : f # file /\ f \in hit => f \in hit'
    BY <1>6, <1>i, <1>t, <2>0 DEF AppendNothing, TypeOK
  <2>5. \/ card'[file] = "whole" \/ file \in hit'
        \/ todo' = todo /\ pc' \in Replacement
    BY <1>6, <1>i, <1>t, <2>0, ChunksAssumption
    DEF AppendNothing, TypeOK, DamagedWasHit, LostIsHit, ShortIsHit, Replacing, Replacement
  <2>6. DamagedWasHit'
    BY <2>0, <2>4, <2>5, OnlyItsFile
  <2>7. LostIsHit' /\ ShortIsHit'
    BY <1>6, <1>i, <1>t, <2>0 DEF AppendNothing, TypeOK, LostIsHit, ShortIsHit, file
  <2>8. QED
    BY <2>1, <2>2, <2>3, <2>6, <2>7 DEF IInv
<1>7. CASE RowRead
  BY <1>7, <1>t, ChunksAssumption, BoundsAssumption
  DEF RowRead, IInv, TypeOK, CallUnderWay, DamagedWasHit, LostIsHit, ShortIsHit,
      HandlesAccounted, Contents, Steps, OwnFile, HttpSteps, Replacing,
      Replacement
<1>8. CASE GetNumberOfSystemRecords
  <2>0. todo # <<>>
    BY <1>8, <1>i DEF GetNumberOfSystemRecords, CallUnderWay
  <2>b. lost' \in BOOLEAN /\ page' \in BOOLEAN
    BY <1>8, <1>i, Zenon DEF GetNumberOfSystemRecords, TypeOK
  <2>1. TypeOK'
    BY <2>b, <1>8, <1>i, <1>t, <2>0, ChunksAssumption, BoundsAssumption
    DEF GetNumberOfSystemRecords, TypeOK, Contents, Steps, OwnFile, HttpSteps,
        HandlesAccounted
  <2>2. CallUnderWay'
    BY <1>8, <2>0 DEF GetNumberOfSystemRecords, CallUnderWay
  <2>3. HandlesAccounted'
    BY <1>8, <1>i DEF GetNumberOfSystemRecords, TypeOK, OwnFile, HttpSteps, HandlesAccounted
  <2>4. /\ \A f \in Names : f # file => card'[f] = card[f]
        /\ \A f \in Names : f # file /\ f \in hit => f \in hit'
    BY <1>8, <1>i, <1>t, <2>0 DEF GetNumberOfSystemRecords, TypeOK
  <2>5. \/ card'[file] = "whole" \/ file \in hit'
        \/ todo' = todo /\ pc' \in Replacement
    BY <1>8, <1>i, <1>t, <2>0, ChunksAssumption
    DEF GetNumberOfSystemRecords, TypeOK, DamagedWasHit, LostIsHit, ShortIsHit, Replacing, Replacement
  <2>6. DamagedWasHit'
    BY <2>0, <2>4, <2>5, OnlyItsFile
  <2>7. LostIsHit' /\ ShortIsHit'
    BY <1>8, <1>i, <1>t, <2>0 DEF GetNumberOfSystemRecords, TypeOK, LostIsHit, ShortIsHit, file
  <2>8. QED
    BY <2>1, <2>2, <2>3, <2>6, <2>7 DEF IInv
<1>9. CASE DefaultFopen
  <2>0. todo # <<>>
    BY <1>9, <1>i DEF DefaultFopen, CallUnderWay
  <2>b. lost' \in BOOLEAN /\ page' \in BOOLEAN
    BY <1>9, <1>i, Zenon DEF DefaultFopen, TypeOK
  <2>1. TypeOK'
    BY <2>b, <1>9, <1>i, <1>t, <2>0, ChunksAssumption, BoundsAssumption
    DEF DefaultFopen, Free, TypeOK, Contents, Steps, OwnFile, HttpSteps,
        HandlesAccounted
  <2>2. CallUnderWay'
    BY <1>9, <2>0 DEF DefaultFopen, CallUnderWay
  <2>3. HandlesAccounted'
    BY <1>9, <1>i DEF DefaultFopen, TypeOK, OwnFile, HttpSteps, HandlesAccounted
  <2>4. /\ \A f \in Names : f # file => card'[f] = card[f]
        /\ \A f \in Names : f # file /\ f \in hit => f \in hit'
    BY <1>9, <1>i, <1>t, <2>0 DEF DefaultFopen, TypeOK
  <2>5. \/ card'[file] = "whole" \/ file \in hit'
        \/ todo' = todo /\ pc' \in Replacement
    BY <1>9, <1>i, <1>t, <2>0, ChunksAssumption
    DEF DefaultFopen, Free, TypeOK, DamagedWasHit, LostIsHit, ShortIsHit, Replacing, Replacement
  <2>6. DamagedWasHit'
    BY <2>0, <2>4, <2>5, OnlyItsFile
  <2>7. LostIsHit' /\ ShortIsHit'
    BY <1>9, <1>i, <1>t, <2>0 DEF DefaultFopen, TypeOK, LostIsHit, ShortIsHit, file
  <2>8. QED
    BY <2>1, <2>2, <2>3, <2>6, <2>7 DEF IInv
<1>10. CASE DefaultFputs
  <2>0. todo # <<>>
    BY <1>10, <1>i DEF DefaultFputs, CallUnderWay
  <2>b. lost' \in BOOLEAN /\ page' \in BOOLEAN
    BY <1>10, <1>i, Zenon DEF DefaultFputs, TypeOK
  <2>1. TypeOK'
    BY <2>b, <1>10, <1>i, <1>t, <2>0, ChunksAssumption, BoundsAssumption
    DEF DefaultFputs, TypeOK, Contents, Steps, OwnFile, HttpSteps,
        HandlesAccounted
  <2>2. CallUnderWay'
    BY <1>10, <2>0 DEF DefaultFputs, CallUnderWay
  <2>3. HandlesAccounted'
    BY <1>10, <1>i DEF DefaultFputs, TypeOK, OwnFile, HttpSteps, HandlesAccounted
  <2>4. /\ \A f \in Names : f # file => card'[f] = card[f]
        /\ \A f \in Names : f # file /\ f \in hit => f \in hit'
    BY <1>10, <1>i, <1>t, <2>0 DEF DefaultFputs, TypeOK
  <2>5. \/ card'[file] = "whole" \/ file \in hit'
        \/ todo' = todo /\ pc' \in Replacement
    BY <1>10, <1>i, <1>t, <2>0, ChunksAssumption
    DEF DefaultFputs, TypeOK, DamagedWasHit, LostIsHit, ShortIsHit, Replacing, Replacement
  <2>6. DamagedWasHit'
    BY <2>0, <2>4, <2>5, OnlyItsFile
  <2>7. LostIsHit' /\ ShortIsHit'
    BY <1>10, <1>i, <1>t, <2>0 DEF DefaultFputs, TypeOK, LostIsHit, ShortIsHit, file
  <2>8. QED
    BY <2>1, <2>2, <2>3, <2>6, <2>7 DEF IInv
<1>11. QED
  BY <1>1, <1>2, <1>3, <1>4, <1>5, <1>6, <1>7, <1>8, <1>9, <1>10 DEF Table

(* A call or a script of calls is asked for.                               *)
LEMMA CallerKeepsIInv == IInv /\ Caller => IInv'
<1> SUFFICES ASSUME IInv, Caller PROVE IInv'
  OBVIOUS
<1>1. /\ pc = "idle" /\ todo = <<>>
      /\ UNCHANGED <<card, pc, client, open, bodyVars, counters, historyVars>>
  BY DEF Caller, download_json_table, Crea_csv_table, CallOne, Start
<1>2. todo' \in Seq(Calls)
  BY StartType DEF IInv, TypeOK
<1>3. TypeOK'
  BY <1>1, <1>2 DEF IInv, TypeOK, bodyVars, counters, historyVars
<1>4. DamagedWasHit'
  BY <1>1 DEF IInv, DamagedWasHit, Replacing, Replacement, historyVars
<1>5. CallUnderWay' /\ LostIsHit' /\ ShortIsHit' /\ HandlesAccounted'
  BY <1>1 DEF IInv, CallUnderWay, LostIsHit, ShortIsHit, HandlesAccounted,
              OwnFile, HttpSteps, bodyVars, historyVars
<1>6. QED
  BY <1>2, <1>3, <1>4, <1>5 DEF IInv

(* The chip resets.                                                        *)
LEMMA ResetKeepsIInv == IInv /\ Reset => IInv'
<1> SUFFICES ASSUME IInv, Reset PROVE IInv'
  OBVIOUS
<1> USE ChunksAssumption, BoundsAssumption DEF Reset
<1>1. TypeOK'
  <2>1. <<>> \in Seq(Calls) /\ 0 \in 0..MaxFiles /\ 0 \in 0..Chunks
    OBVIOUS
  <2>2. hit' \subseteq Names /\ card' \in [Names -> Contents]
    <3>1. CASE Keep
      BY <3>1 DEF Keep, IInv, TypeOK
    <3>2. CASE Format
      BY <3>2 DEF Format, Contents
    <3>3. QED
      BY <3>1, <3>2
  <2>3. QED
    BY <2>1, <2>2 DEF TypeOK, Steps, HttpSteps, OwnFile
<1>2. DamagedWasHit'
  <2>1. CASE Keep
    BY <2>1 DEF Keep, IInv, DamagedWasHit, Writing
  <2>2. CASE Format
    BY <2>2 DEF Format, DamagedWasHit
  <2>3. QED
    BY <2>1, <2>2
<1>3. CallUnderWay' /\ LostIsHit' /\ ShortIsHit' /\ HandlesAccounted'
  BY DEF CallUnderWay, LostIsHit, ShortIsHit, HandlesAccounted, OwnFile, HttpSteps
<1>4. QED
  BY <1>1, <1>2, <1>3 DEF IInv

(* IInv holds in every state: no file is damaged but by a fault that hit   *)
(* its own replacement or a format, and no call keeps a FILE or a client   *)
(* but the append that writes nothing.                                     *)
THEOREM IInvHolds == Spec => []IInv
<1>1. Init => IInv
  BY InitIInv
<1>2. IInv /\ [Next]_vars => IInv'
  <2> SUFFICES ASSUME IInv, [Next]_vars PROVE IInv'
    OBVIOUS
  <2>1. CASE Next
    BY <2>1, CallerKeepsIInv, DownloadKeepsIInv, UploadKeepsIInv, TableKeepsIInv,
       AnsweredKeepsIInv, ResetKeepsIInv DEF Next, Step
  <2>2. CASE UNCHANGED vars
    BY <2>2 DEF vars, bodyVars, counters, historyVars, IInv, TypeOK, CallUnderWay,
                DamagedWasHit, LostIsHit, ShortIsHit, HandlesAccounted, Replacing,
                file
  <2>3. QED
    BY <2>1, <2>2
<1>3. QED
  BY <1>1, <1>2, PTL DEF Spec

(* The types of the variables, for any instance.                           *)
THEOREM TypeCorrect == Spec => []TypeOK
<1>1. IInv => TypeOK
  BY DEF IInv
<1>2. QED
  BY <1>1, IInvHolds, PTL

(* A file is damaged only when its own last replacement was hit, or a      *)
(* reset cut a change of the card short and the mount formatted it: the    *)
(* old file survives a server that cannot be reached (NET:568-580).        *)
THEOREM DamageIsExplained == Spec => []DamagedWasHit
<1>1. IInv => DamagedWasHit
  BY DEF IInv
<1>2. QED
  BY <1>1, IInvHolds, PTL

(* Every FILE and every HTTP client is given back, on every path of every  *)
(* function, but for the FILE of append_systeam_table when row_no is 0.    *)
THEOREM HandlesReturn == Spec => []HandlesAccounted
<1>1. IInv => HandlesAccounted
  BY DEF IInv
<1>2. QED
  BY <1>1, IInvHolds, PTL

(***************************************************************************)
(* What ends every call.                                                   *)
(***************************************************************************)

(* Steps a call has ahead of it, at most.                                  *)
Ahead ==
  CASE pc = "idle"    -> Chunks + 6
    [] pc = "headers" -> Chunks + 5
    [] pc = "remove"  -> Chunks + 4
    [] pc = "fopen"   -> Chunks + 3
    [] pc = "read"    -> Chunks - got + 2
    [] pc \in {"connect", "perform"} -> 3
    [] pc \in {"body", "create", "again"} -> 2
    [] pc \in {"fclose", "answer", "answered", "header", "append", "fputs"} -> 1

(* A call returns or is given up, or the one under way comes closer to it. *)
Advances ==
  \/ Len(todo') < Len(todo)
  \/ todo' = todo /\ Ahead' < Ahead

LEMMA AheadType == TypeOK => Ahead \in 1..(Chunks + 6)
<1> SUFFICES ASSUME TypeOK PROVE Ahead \in 1..(Chunks + 6)
  OBVIOUS
<1>1. Chunks \in Nat \ {0} /\ got \in 0..Chunks /\ pc \in Steps
  BY ChunksAssumption DEF TypeOK
<1>2. QED
  BY <1>1 DEF Ahead, Steps, OwnFile, HttpSteps

LEMMA ReturnAdvances ==
  ASSUME TypeOK, todo # <<>>, Return
  PROVE  Advances
<1>1. Len(Tail(todo)) < Len(todo)
  BY DEF TypeOK
<1>2. QED
  BY <1>1 DEF Return, Advances

LEMMA StepAdvances == IInv /\ (Step \/ Answered) => Advances \/ UNCHANGED vars
<1> SUFFICES ASSUME IInv, Step \/ Answered PROVE Advances \/ UNCHANGED vars
  OBVIOUS
<1>1. /\ TypeOK /\ todo # <<>> /\ Chunks \in Nat \ {0} /\ got \in 0..Chunks
      /\ got' \in Nat
  <2>1. TypeOK /\ TypeOK'
    BY DownloadKeepsIInv, UploadKeepsIInv, TableKeepsIInv, AnsweredKeepsIInv
       DEF IInv, Step
  <2>2. pc # "idle" => todo # <<>>
    BY DEF IInv, CallUnderWay
  <2>3. pc = "idle" => todo # <<>>
    BY DEF Step, Download, DownloadOpen, DownloadHeaders, DownloadRemove,
           DownloadFopen, DownloadRead, DownloadFclose, Upload, UploadFopen,
           UploadOpen, UploadBody, UploadAnswer, Request, RequestPerform,
           PostAgain, Answered, Table,
           CreateRemove, CreateFopen, CreateHeader, AppendFopen, AppendRow,
           AppendNothing, RowRead, GetNumberOfSystemRecords, DefaultFopen,
           DefaultFputs, Calling
  <2>4. got \in 0..Chunks /\ got' \in 0..Chunks
    BY <2>1 DEF TypeOK
  <2>5. QED
    BY <2>1, <2>2, <2>3, <2>4, ChunksAssumption
<1>2. CASE Return
  BY <1>1, <1>2, ReturnAdvances
<1>3. CASE ~ Return /\ Download
  BY <1>1, <1>3
     DEF Download, DownloadOpen, DownloadHeaders, DownloadRemove, DownloadFopen,
         DownloadRead, DownloadFclose, Calling, Advances, Ahead
<1>4. CASE ~ Return /\ (Upload \/ Answered)
  <2>1. CASE PostAgain /\ pc = "again"
    BY <2>1 DEF PostAgain, vars
  <2>2. CASE PostAgain /\ pc # "again"
    BY <1>1, <2>2 DEF PostAgain, Advances, Ahead
  <2>3. CASE ~ PostAgain
    BY <1>1, <1>4, <2>3
       DEF Upload, UploadFopen, UploadOpen, UploadBody, UploadAnswer, Request,
           RequestPerform, Answered, Calling, Advances, Ahead
  <2>4. QED
    BY <2>1, <2>2, <2>3
<1>5. CASE ~ Return /\ Table
  BY <1>1, <1>5
     DEF Table, CreateRemove, CreateFopen, CreateHeader, AppendFopen, AppendRow,
         AppendNothing, RowRead, GetNumberOfSystemRecords, DefaultFopen,
         DefaultFputs, Calling, Advances, Ahead
<1>6. QED
  BY <1>2, <1>3, <1>4, <1>5 DEF Step

(* Whatever the server and the card answer, every step from the first call *)
(* of a script on brings its end closer: a call returns, or has one step   *)
(* less of at most Chunks + 6 ahead of it.  A reset ends them all.  A POST *)
(* that is performed again and finds no answer yet takes no step.          *)
THEOREM EveryStepAdvances ==
  Spec => /\ [](Ahead \in 1..(Chunks + 6))
          /\ [][todo # <<>> => Advances]_vars
<1>1. IInv => Ahead \in 1..(Chunks + 6)
  BY AheadType DEF IInv
<1>2. IInv /\ [Next]_vars => [todo # <<>> => Advances]_vars
  <2> SUFFICES ASSUME IInv, Next, todo # <<>> PROVE Advances \/ UNCHANGED vars
    OBVIOUS
  <2>1. ~ Caller
    BY DEF Caller, download_json_table, Crea_csv_table, CallOne, Start
  <2>2. CASE Step \/ Answered
    BY <2>2, StepAdvances
  <2>3. CASE Reset
    BY <2>3 DEF Reset, Advances, IInv, TypeOK
  <2>4. QED
    BY <2>1, <2>2, <2>3 DEF Next
<1>3. QED
  BY <1>1, <1>2, IInvHolds, PTL DEF Spec

=============================================================================

----------------------------- MODULE SoundLoad -----------------------------
(* How the files of a sketch are loaded: a request to the server, then the     *)
(* decoding of its answer, each of which ends when it likes.  The setup of the *)
(* sketch waits for the loads its preload began (p5 counts them, external).    *)
EXTENDS Naturals, Sequences, SequencesExt

CONSTANTS Files,
          Given,       \* what the sketch asks for: [array, paths], each path [name, ext]
          Formats,     \* what soundFormats is called with
          Supported,   \* the formats the browser plays
          Dotted,      \* the names with a dot inside
          MaxLoads,    \* bound on the loads of all files
          none, samples

VARIABLES
  extensions,    \* the formats the sketch has its files in
  url, buffer,   \* of each file: where it is to come from and what it holds
  panner,        \* the files not disposed of
  requests,      \* of each file: its loads under way, in order: [url, stage, preload]
  preloads,      \* how many loads setup waits for
  setup,         \* the sketch runs
  loads,         \* how many loads of each file were begun
  told,          \* history: how often a file's callbacks were called, by kind; a load of
                 \* nothing the browser plays throws, or fails in the decoder
  hopeless       \* history: a file was asked for in nothing the browser plays

vars == <<extensions, url, buffer, panner, requests, preloads, setup, loads, told, hopeless>>

Init == /\ extensions = <<>>
        /\ url = [f \in Files |-> none] /\ buffer = [f \in Files |-> none]
        /\ panner = Files
        /\ requests = [f \in Files |-> <<>>]
        /\ preloads = 0 /\ setup = FALSE /\ loads = [f \in Files |-> 0]
        /\ told = [f \in Files |-> [loaded |-> 0, failed |-> 0, unplayable |-> 0]]
        /\ hopeless = FALSE

-----------------------------------------------------------------------------
Valid == {"mp3", "wav", "ogg", "m4a", "aac"}

Playable(ext) == ext \in Supported

\* soundFormats: it throws at the first that is not valid, with those before it noted.
SoundFormats(formats) ==
  LET wrong == {i \in DOMAIN formats : formats[i] \notin Valid}
  IN /\ extensions = <<>>
     /\ extensions' = SubSeq(formats, 1, IF wrong = {} THEN Len(formats)
                                         ELSE (CHOOSE i \in wrong : \A j \in wrong : i <= j) - 1)
     /\ UNCHANGED <<url, buffer, panner, requests, preloads, setup, loads, told, hopeless>>

\* Mutant: an extension is added also to a path whose own the browser does not play.
MutantNamed(p, ext) == IF p.ext = none THEN [name |-> p.name, ext |-> ext] ELSE p

\* A path with another extension; of a name with a dot inside, what is before it is lost.
Named(p, ext) == [name |-> IF p.ext /= none /\ p.name \in Dotted THEN none ELSE p.name, ext |-> ext]

\* _checkFileFormats: of one path the extension is replaced, or added, when there is a format of the
\* sketch that the browser plays; of several the first it plays is taken, or none.
Chosen(g) ==
  LET ours == SelectSeq(extensions, Playable)
      fit  == SelectSeq(g.paths, LAMBDA p : Playable(p.ext))
  IN IF g.array THEN IF fit = <<>> THEN none ELSE fit[1]
     ELSE IF ours = <<>> \/ fit /= <<>> THEN g.paths[1] ELSE Named(g.paths[1], ours[1])

\* What is asked for cannot be had in any way the library is told of, or its name is lost.
Hopeless(g) == /\ \A i \in DOMAIN g.paths : ~Playable(g.paths[i].ext)
               /\ \/ g.array
                  \/ \A i \in DOMAIN extensions : ~Playable(extensions[i])
                  \/ g.paths[1].ext /= none /\ g.paths[1].name \in Dotted

\* load, of the file's path as it is now.  When there is none, a reader of files is given what is
\* none, which throws.
Load(f, g, preload) ==
  LET p == Chosen(g) IN
    /\ FoldFunction(+, 0, loads) < MaxLoads
    /\ url' = [url EXCEPT ![f] = p]
    /\ requests' = IF p = none THEN requests
                   ELSE [requests EXCEPT ![f] = Append(@, [url |-> p, stage |-> "sent",
                                                           preload |-> preload])]
    /\ told' = IF p = none THEN [told EXCEPT ![f].unplayable = @ + 1] ELSE told
    /\ hopeless' = (hopeless \/ Hopeless(g))
    /\ loads' = [loads EXCEPT ![f] = @ + 1]

\* loadSound, in the preload of the sketch.
LoadSound(f, g) == /\ ~setup /\ loads[f] = 0
                   /\ Load(f, g, TRUE)
                   /\ preloads' = preloads + 1
                   /\ UNCHANGED <<extensions, buffer, panner, setup>>

SetPath(f, g) == /\ loads[f] > 0
                 /\ Load(f, g, FALSE)
                 /\ UNCHANGED <<extensions, buffer, panner, preloads, setup>>

\* setBuffer, which throws for a file that was disposed of once its buffer is replaced.
SetBuffer(f) == /\ buffer' = [buffer EXCEPT ![f] = samples]
                /\ UNCHANGED <<extensions, url, panner, requests, preloads, setup, loads, told,
                               hopeless>>

Dispose(f) == /\ f \in panner
              /\ panner' = panner \ {f}
              /\ UNCHANGED <<extensions, url, buffer, requests, preloads, setup, loads, told,
                             hopeless>>

\* A load of the file is over.
Over(f, i) == requests' = [requests EXCEPT ![f] = RemoveAt(@, i)]

\* Mutant: nobody asks.
MutantAwaited(f) == TRUE

\* What onload and the decoder ask: the file was not disposed of.
Awaited(f) == f \in panner

CountedDown(r) == IF r.preload THEN preloads - 1 ELSE preloads

\* request.onload with status 200: the answer goes to be decoded, unless nobody waits for it.
Answered(f, i) ==
  /\ requests[f][i].stage = "sent" /\ requests[f][i].url.name /= none
  /\ IF Awaited(f) THEN requests' = [requests EXCEPT ![f][i].stage = "decoding"] ELSE Over(f, i)
  /\ UNCHANGED <<extensions, url, buffer, panner, preloads, setup, loads, told, hopeless>>

\* decodeAudioData is done: the callback of loadSound counts its load down.
Decoded(f, i) ==
  LET r == requests[f][i] IN
    /\ r.stage = "decoding" /\ r.url.ext \in Supported \cup {none}
    /\ Over(f, i)
    /\ IF Awaited(f)
       THEN /\ buffer' = [buffer EXCEPT ![f] = r.url]
            /\ told' = [told EXCEPT ![f].loaded = @ + 1]
            /\ preloads' = CountedDown(r)
       ELSE UNCHANGED <<buffer, told, preloads>>
    /\ UNCHANGED <<extensions, url, panner, setup, loads, hopeless>>

\* The callbacks for errors count nothing down.
FailedAs(f, i, why) ==
  /\ Over(f, i)
  /\ told' = IF f \in panner THEN [told EXCEPT ![f][why] = @ + 1] ELSE told
  /\ UNCHANGED <<extensions, url, buffer, panner, preloads, setup, loads, hopeless>>

\* The server refused, or the answer is no sound.
Failed(f, i) == FailedAs(f, i, "failed")

\* The server has no file of a name that was lost, and the browser cannot decode what it does
\* not play; what is in a file without an extension is not known.
Unplayable(f, i) ==
  LET r == requests[f][i] IN
    /\ \/ r.stage = "sent" /\ r.url.name = none
       \/ r.stage = "decoding" /\ ~Playable(r.url.ext)
    /\ FailedAs(f, i, "unplayable")

\* request.onerror: no answer.  Here nobody asks whether the file was disposed of.
NoAnswer(f, i) ==
  /\ requests[f][i].stage = "sent"
  /\ Over(f, i)
  /\ told' = [told EXCEPT ![f].failed = @ + 1]
  /\ UNCHANGED <<extensions, url, buffer, panner, preloads, setup, loads, hopeless>>

Setup == /\ ~setup /\ preloads = 0
         /\ setup' = TRUE
         /\ UNCHANGED <<extensions, url, buffer, panner, requests, preloads, loads, told, hopeless>>

Ends(f, i) == Answered(f, i) \/ Decoded(f, i) \/ Failed(f, i) \/ Unplayable(f, i) \/ NoAnswer(f, i)

Next == \/ \E formats \in Formats : SoundFormats(formats)
        \/ \E f \in Files, g \in Given : LoadSound(f, g) \/ SetPath(f, g)
        \/ \E f \in Files : SetBuffer(f) \/ Dispose(f)
        \/ \E f \in Files : \E i \in DOMAIN requests[f] : Ends(f, i)
        \/ Setup

\* The oldest load of a file gets somewhere, and p5 starts a sketch nothing holds back.
Fairness == /\ \A f \in Files : WF_vars(requests[f] /= <<>> /\ Ends(f, 1))
            /\ WF_vars(Setup)

Spec == Init /\ [][Next]_vars /\ Fairness
-----------------------------------------------------------------------------
Paths == [name : {p.name : p \in UNION {Range(g.paths) : g \in Given}} \cup {none},
          ext : Valid \cup {none}]

\* The variables have the types the methods give them.
TypeOK ==
  /\ extensions \in Seq(Valid) /\ {setup, hopeless} \subseteq BOOLEAN
  /\ url \in [Files -> Paths \cup {none}] /\ buffer \in [Files -> Paths \cup {none, samples}]
  /\ panner \subseteq Files
  /\ requests \in [Files -> Seq([url : Paths, stage : {"sent", "decoding"}, preload : BOOLEAN])]
  /\ preloads \in Nat /\ loads \in [Files -> 0..MaxLoads]
  /\ told \in [Files -> [loaded : Nat, failed : Nat, unplayable : Nat]]

\* A file that was disposed of is not told that it was loaded and gets no buffer from a load, at
\* whichever stage the load was.
QuietAfterDispose ==
  [][\A f \in Files \ panner :
       told'[f].loaded = told[f].loaded /\ buffer'[f] \in {buffer[f], samples}]_vars

\* The sketch starts unless a load fails, a file is disposed of, or one was asked for in nothing the
\* browser plays: then setup waits for ever, as only the callback of a load that succeeded counts it
\* down.
SketchStarts ==
  <>(setup \/ panner /= Files \/ hopeless \/ \E f \in Files : told[f].failed > 0)
=============================================================================

------------------------------- MODULE ScanForm -------------------------------
(***************************************************************************)
(* The verify form of the home page (frontend/src/components/scan-form.tsx)*)
(* with its camera (qr-scanner.tsx) and the request behind it              *)
(* (lib/api.ts verifySerial).  A step is what runs between two awaits, a   *)
(* render and its effects included.                                        *)
(*                                                                         *)
(* Requests are numbered in the order they are made and may be answered in *)
(* any order.  Each time the scanner is mounted it makes a scanner object  *)
(* of its own, numbered likewise.  The camera library is external: an      *)
(* object that is still starting refuses stop(), and starts all the same.  *)
(*                                                                         *)
(* What other modules call Init, Next, Spec and so on has the prefix Scan: *)
(* PageProofs extends this module and Dashboard's.                         *)
(***************************************************************************)
EXTENDS Integers, Sequences

CONSTANTS
    Code,                       \* pairs of a batch id and a serial
    MaxRequests, MaxMounts,     \* bounds
    NoCode                      \* an empty field, or a text that has no code

ASSUME ScanAssumption ==
    /\ {MaxRequests, MaxMounts} \subseteq Nat
    /\ NoCode \notin Code

VARIABLES
    code,       \* the two fields: a code, or NoCode while one is empty
    checking,   \* what the form calls loading
    error,      \* "none", "unreadable" or "failed"
    result,     \* the request whose answer is shown, 0 for none
    requests,   \* the code each request was for
    pending,    \* the requests not answered yet
    scanning,
    scanner,    \* for each mount of the scanner, its camera
    ref,        \* the mounts whose scannerRef holds their scanner
    since,      \* history: the first of the requests that overlap, or the last request
    cut         \* history: the mounts stopped while their camera was starting

view == <<code, checking, error, result, scanning>>
camera == <<scanner, ref, cut>>
scanVars == <<view, requests, pending, camera, since>>

mount == Len(scanner)

-----------------------------------------------------------------------------
(* runVerify *)

runVerify(c) ==
    /\ Len(requests) < MaxRequests
    /\ requests' = Append(requests, c)
    /\ pending' = pending \cup {Len(requests) + 1}
    /\ checking' = TRUE
    /\ error' = "none"
    /\ UNCHANGED result

\* Planted bug for mutation: the button stays enabled.
SubmittableAlways == code # NoCode

\* The button's disabled attribute.
Submittable == ~checking /\ code # NoCode

Submit ==
    /\ Submittable
    /\ runVerify(code)
    /\ since' = IF pending # {} /\ since < Len(requests)
                THEN since ELSE Len(requests) + 1
    /\ UNCHANGED <<code, scanning, camera>>

\* The fields can be edited at any time.
Edit ==
    /\ code' \in Code \cup {NoCode}
    /\ UNCHANGED <<checking, error, result, scanning, requests, pending, camera,
                   since>>

Answered(q) ==
    /\ pending' = pending \ {q}
    /\ checking' = FALSE
    /\ UNCHANGED <<code, scanning, requests, camera, since>>

\* The request is answered with a verdict.
Respond(q) ==
    /\ result' = q
    /\ Answered(q)
    /\ UNCHANGED error

\* Planted bug for mutation: the flag is reset on success only.
RespondErrorBusy(q) ==
    /\ error' = "failed" /\ result' = 0
    /\ pending' = pending \ {q}
    /\ UNCHANGED <<code, checking, scanning, requests, camera, since>>

\* It is answered with an error, or not at all.
RespondError(q) ==
    /\ error' = "failed" /\ result' = 0
    /\ Answered(q)

-----------------------------------------------------------------------------
(* The camera *)

\* stop() of the given mounts: the reference is dropped, and the camera stops
\* if it runs.
Stop(mounts) ==
    /\ ref' = ref \ mounts
    /\ scanner' = [m \in DOMAIN scanner |->
                    IF m \in mounts \cap ref /\ scanner[m] = "running"
                    THEN "stopping" ELSE scanner[m]]
    /\ cut' = cut \cup {m \in mounts \cap ref : scanner[m] = "starting"}

\* The scanner is mounted: its module is loaded first.
OpenScanner ==
    /\ ~scanning /\ mount < MaxMounts
    /\ scanning' = TRUE
    /\ scanner' = Append(scanner, "loading")
    /\ UNCHANGED <<code, checking, error, result, requests, pending, ref, cut,
                   since>>

\* "Cancel scanning" and "Stop scanning".
CloseScanner ==
    /\ scanning
    /\ scanning' = FALSE
    /\ Stop({mount})
    /\ UNCHANGED <<code, checking, error, result, requests, pending, since>>

Camera(m, state) ==
    /\ scanner' = [scanner EXCEPT ![m] = state]
    /\ UNCHANGED <<view, requests, pending, cut, since>>

\* Planted bug for mutation: nobody looks whether the scanner is still wanted.
DisposedNever(m) == FALSE

Disposed(m) == ~(scanning /\ m = mount)

ModuleLoaded(m) ==
    /\ scanner[m] = "loading"
    /\ IF Disposed(m)
       THEN Camera(m, "off") /\ UNCHANGED ref
       ELSE Camera(m, "starting") /\ ref' = ref \cup {m}

CameraStarts(m) ==
    /\ scanner[m] = "starting"
    /\ Camera(m, "running")
    /\ UNCHANGED ref

\* The import or the start throws: no permission, no camera, no network.
CameraRefused(m) ==
    /\ scanner[m] \in {"loading", "starting"}
    /\ Camera(m, "off")
    /\ UNCHANGED ref

CameraStops(m) ==
    /\ scanner[m] = "stopping"
    /\ Camera(m, "off")
    /\ UNCHANGED ref

\* What a code in front of the camera may say.
Text == [shape : {"verify url", "pair", "other"}, code : Code]

\* Planted bug for mutation: the text is taken for the code in it.
parseScanRaw(text) == text

\* The code in a verify URL or in a pair; NoCode for any other text.
parseScan(text) == IF text.shape = "other" THEN NoCode ELSE text.code

\* A frame is decoded, maybe the one in hand when the camera was stopped.  The
\* scanner stops, and handleScan unmounts the one that is mounted.
Decode(m, text) ==
    /\ scanner[m] \in {"running", "stopping"}
    /\ Stop({m} \cup {i \in {mount} : scanning})
    /\ scanning' = FALSE
    /\ \/ /\ parseScan(text) = NoCode
          /\ error' = "unreadable"
          /\ UNCHANGED <<code, checking, result, requests, pending, since>>
       \/ /\ parseScan(text) # NoCode
          /\ code' = parseScan(text)
          /\ runVerify(parseScan(text))
          /\ since' = IF pending # {} THEN since ELSE Len(requests) + 1

-----------------------------------------------------------------------------
ScanInit ==
    /\ code = NoCode /\ checking = FALSE /\ error = "none" /\ result = 0
    /\ requests = <<>> /\ pending = {}
    /\ scanning = FALSE
    /\ scanner = <<>> /\ ref = {} /\ cut = {}
    /\ since = 0

ScanNext ==
    \/ Submit
    \/ Edit
    \/ \E q \in pending : Respond(q)
    \/ \E q \in pending : RespondError(q)
    \/ OpenScanner
    \/ CloseScanner
    \/ \E m \in DOMAIN scanner :
        \/ ModuleLoaded(m)
        \/ CameraStarts(m)
        \/ CameraRefused(m)
        \/ CameraStops(m)
        \/ \E text \in Text : Decode(m, text)

ScanSpec == ScanInit /\ [][ScanNext]_scanVars

-----------------------------------------------------------------------------
(* Properties *)

\* Types of the form's state and of the cameras.
ScanTypeOK ==
    /\ code \in Code \cup {NoCode}
    /\ checking \in BOOLEAN /\ scanning \in BOOLEAN
    /\ error \in {"none", "unreadable", "failed"}
    /\ pending \subseteq DOMAIN requests
    /\ result \in (0..Len(requests)) \ pending
    /\ requests \in Seq(Code) /\ since \in 0..Len(requests)
    /\ scanner \in Seq({"loading", "starting", "running", "stopping", "off"})
    /\ ref \subseteq DOMAIN scanner /\ cut \subseteq DOMAIN scanner

\* The verdict on the screen, when nothing is being checked, is that of the last
\* request, or of one that a code was scanned on top of: the button refuses a second
\* request, a scan does not, and its mix-up ends with the answers to the requests that
\* overlap (scan-form.tsx runVerify, handleScan).
VerdictIsOfLastRequest ==
    pending = {} => result \in {0} \cup (since..Len(requests))

\* "Checking..." is shown only while the last request is on its way; so the
\* button is never disabled for good (scan-form.tsx runVerify, finally).
CheckingMeansPending == checking => Len(requests) \in pending

\* Types apart, a camera runs only for the scanner on the screen: whenever the scanner is
\* closed or a code is read ("Stops the camera as soon as a code is read",
\* qr-scanner.tsx), and however late its module is loaded, except that a camera closed
\* while it was starting goes on running (qr-scanner.tsx start, stop).
CameraIsAttended ==
    /\ ScanTypeOK
    /\ \A m \in DOMAIN scanner :
        scanner[m] = "running" =>
            (scanning /\ m = mount /\ m \in ref) \/ m \in cut

\* The requests on their way are those a code was scanned on top of, and the last;
\* while that is one request, the form shows that it is checking.
OneRequestAtATime ==
    /\ pending \subseteq since..Len(requests)
    /\ since = Len(requests) /\ pending # {} => checking

\* A scanner reference is held by the scanner on the screen only, and a camera that
\* starts or runs is that scanner's, or was cut off while it started.
RefIsOfScanner ==
    /\ \A m \in ref : scanning /\ m = mount
    /\ \A m \in DOMAIN scanner :
        scanner[m] \in {"starting", "running"} => m \in ref \/ m \in cut

\* The inductive invariant of the form and its camera.
ScanInv ==
    /\ ScanTypeOK
    /\ OneRequestAtATime
    /\ VerdictIsOfLastRequest
    /\ CheckingMeansPending
    /\ RefIsOfScanner

=============================================================================

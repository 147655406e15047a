-------------------------- MODULE TarballDownload --------------------------
(***************************************************************************)
(* TarballDownloader.download: one tarball is streamed to a file, under a  *)
(* size limit and an optional digest.  The server chooses the status, the  *)
(* chunks and when the body ends; every await and every write may fail.    *)
(***************************************************************************)
EXTENDS Integers

CONSTANTS MaxBytes,     \* tarball_max_bytes
          ChunkSizes    \* sizes of the chunks the server may send

ASSUME DownloadAssumption ==
    /\ MaxBytes \in Nat
    /\ ChunkSizes \subseteq Nat \ {0}

VARIABLES pc,        \* where download() is
          digest,    \* is there a digest to compare with?
          received,  \* downloaded_bytes
          hashed,    \* bytes the digest has been fed
          disk,      \* bytes in target_file
          reason     \* why it failed

downloadVars == <<pc, digest, received, hashed, disk, reason>>

NoFile == -1

DownloadReasons == {"url", "malformed url", "directory", "integrity metadata",
                    "invalid url", "status", "timeout", "transport", "write",
                    "size", "digest", "unlink"}

FileTypeOK ==
    /\ pc \in {"idle", "requested", "streaming", "returned", "failed"}
    /\ digest \in BOOLEAN
    /\ received \in Nat /\ hashed \in Nat
    /\ disk \in Nat \cup {NoFile}

DownloadTypeOK == FileTypeOK /\ reason \in DownloadReasons \cup {"none"}

DownloadInit ==
    /\ pc = "idle"
    /\ digest = FALSE
    /\ received = 0 /\ hashed = 0
    /\ disk = NoFile
    /\ reason = "none"

-----------------------------------------------------------------------------
(* Mutant: the exception leaves the partial file where it is.              *)
DiscardNothing(why) ==
    /\ pc' = "failed"
    /\ disk' = disk /\ reason' = why
    /\ UNCHANGED <<digest, received, hashed>>

(* An exception in the body of the `try`: the file is removed, unless      *)
(* exists or unlink raises in its turn, which they may do for a name that  *)
(* could not be opened either.                                             *)
Discard(why) ==
    /\ pc' = "failed"
    /\ \/ disk' = NoFile /\ reason' = why
       \/ disk' = disk /\ reason' = "unlink"
    /\ UNCHANGED <<digest, received, hashed>>

(* What is done before the request, outside of the `try`: the URL is       *)
(* looked at, which urlparse may not be able to read, the directory is     *)
(* made, and the integrity string is read, whose first token with a        *)
(* supported algorithm decides.                                            *)
Refuse ==
    /\ pc = "idle"
    /\ pc' = "failed"
    /\ reason' \in {"url", "malformed url", "directory", "integrity metadata"}
    /\ UNCHANGED <<digest, received, hashed, disk>>

Request ==
    /\ pc = "idle"
    /\ pc' = "requested"
    /\ digest' \in BOOLEAN
    /\ UNCHANGED <<received, hashed, disk, reason>>

(* A URL that httpx does not take, or a status of 400 or more: nothing has *)
(* been opened, and none of the handlers of download() sees the exception. *)
StreamRefused ==
    /\ pc = "requested"
    /\ pc' = "failed"
    /\ reason' \in {"invalid url", "status"}
    /\ UNCHANGED <<digest, received, hashed, disk>>

OpenFile ==
    /\ pc = "requested"
    /\ pc' = "streaming"
    /\ disk' = 0
    /\ UNCHANGED <<digest, received, hashed, reason>>

FedToDigest(n) == IF digest THEN hashed + n ELSE hashed

(* Mutant: the limit is compared with what was there before the chunk.     *)
WriteChunkThenCheck(n) ==
    /\ pc = "streaming"
    /\ received <= MaxBytes
    /\ received' = received + n
    /\ hashed' = FedToDigest(n)
    /\ disk' = disk + n
    /\ UNCHANGED <<pc, digest, reason>>

(* Empty chunks are skipped and change nothing.                            *)
WriteChunk(n) ==
    /\ pc = "streaming"
    /\ received + n <= MaxBytes
    /\ received' = received + n
    /\ hashed' = FedToDigest(n)
    /\ disk' = disk + n
    /\ UNCHANGED <<pc, digest, reason>>

ChunkOverLimit(n) ==
    /\ pc = "streaming"
    /\ received + n > MaxBytes
    /\ Discard("size")

(* The body has ended.  Whether the digests are equal is the data's        *)
(* affair; without an expected digest nothing is compared.                 *)
Finish ==
    /\ pc = "streaming"
    /\ pc' = "returned"
    /\ UNCHANGED <<digest, received, hashed, disk, reason>>

DigestDiffers ==
    /\ pc = "streaming"
    /\ digest
    /\ Discard("digest")

TimesOut ==
    /\ pc \in {"requested", "streaming"}
    /\ Discard("timeout")

TransportFails ==
    /\ pc \in {"requested", "streaming"}
    /\ Discard("transport")

(* open() or write() raises OSError: the disk is full.                     *)
WriteFails ==
    /\ pc \in {"requested", "streaming"}
    /\ Discard("write")

DownloadStep ==
    \/ Refuse \/ Request \/ StreamRefused \/ OpenFile \/ Finish \/ DigestDiffers
    \/ TimesOut \/ TransportFails \/ WriteFails
    \/ \E n \in ChunkSizes : WriteChunk(n) \/ ChunkOverLimit(n)

DownloadSpec == DownloadInit /\ [][DownloadStep]_downloadVars
-----------------------------------------------------------------------------
(* However the chunks fall and wherever it fails, download() never puts    *)
(* more than the limit on the disk, even for the time of one chunk.        *)
DiskWithinLimit == disk <= MaxBytes

(* The path download() returns names the whole body, every byte of which   *)
(* went through the digest when there is one; when it raises there is no   *)
(* file, except when removing it is what failed.                           *)
WholeFileOrNone ==
    /\ pc = "returned" => disk = received /\ (digest => hashed = received)
    /\ pc = "failed" /\ reason # "unlink" => disk = NoFile
=============================================================================

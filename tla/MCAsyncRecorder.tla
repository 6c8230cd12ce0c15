---------------------------- MODULE MCAsyncRecorder ----------------------------
(* AsyncRecorder on a new file.                                            *)
EXTENDS AsyncRecorder

NoFile == <<>>
===============================================================================

SPECIFICATION FairSpec
CONSTANTS
    handbook = handbook
    invoice = invoice
    Uploads <- MCUploads
    MaxPieces = 3
INVARIANT ReadyIsComplete
PROPERTY OutcomeIsFinal
PROPERTY UploadsEnd

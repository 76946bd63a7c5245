CONSTANTS
    Payloads <- MCPayloads
    Timestamps <- MCTimestamps
    Fragments <- MCFragments

SPECIFICATION Spec

INVARIANT MarshalIsWireFormat
INVARIANT RoundTrip
INVARIANT UnmarshalNeverPanics
